---- MODULE Spec2Model ----
(***************************************************************************)
(* Model of the in-process command queue of src/src/process/command-queue.ts *)
(* (named lanes with priority buckets, per-session lanes with a global     *)
(* session cap).  JavaScript runs every exported function and every        *)
(* promise continuation to completion, so each of them is one action.      *)
(* A task body is asynchronous: its start is part of the drain routine     *)
(* that dequeues it, its settlement is the continuation after              *)
(* `await entry.task()`.                                                   *)
(*                                                                         *)
(* The module also models the message coalescer of                         *)
(* src/src/agents/request-coalescing.ts: one window per session key, the   *)
(* promises handed to the callers of coalesceMessage, and the window timer *)
(* as an action of its own; and the subagent registry of                   *)
(* src/src/agents/subagent-registry.ts: the run records, their waiters,    *)
(* the announce flows in flight, the archival sweep with its awaits, the   *)
(* persisted file and the restart of the process.  The registry store, the *)
(* event bus and the announce flow are not part of the sources at hand and *)
(* are modelled from the specification.                                    *)
(***************************************************************************)
EXTENDS Integers, Sequences, FiniteSets, TLC

\* ---------------------------------------------------------------- bounds
\* number of named-lane tasks: each takes a promise identity never used before
\* (nextTaskId counts the named-lane tasks, so their number has to be bounded)
MaxLaneTasks == 4
\* number of session-lane entries alive (queued or running) at the same time:
\* a session-lane enqueue reuses the identity of a settled promise, so the
\* session lanes can be driven forever
MaxSessionTasks == 3
\* largest concurrency value handed to the two setters
MaxCap == 2
\* number of tasks of either kind where named lanes and session lanes run together
MaxMixedTasks == 2
\* number of coalesceMessage calls: each returns a promise of its own
MaxCalls == 4
\* largest maxMessages handed to configureCoalescing
MaxBatch == 3
\* number of subagent runs registered (run ids are never reused)
MaxRuns == 2
\* number of waitForSubagentRun calls
MaxWaiters == 2
\* largest clock reading
MaxTime == 2
\* number of process restarts
MaxRestarts == 1
\* number of preloadAuth calls made from outside that await the resolver
\* together
MaxAuthCalls == 2
\* number of background refreshes in flight together
MaxRefreshes == 2
\* largest clock reading of the auth cache, in minutes
MaxAuthClock == 8
\* capacity of the auth cache: AUTH_CACHE_MAX_SIZE is 50, brought down to
\* less than the number of cache keys
MaxCacheSize == 2
\* number of findAvailableAuth calls, made one after the other
MaxFinds == 2
\* number of waitForActiveTasks calls, made one after the other
MaxDrains == 2
\* number of managed timers created
MaxTimers == 3
\* number of timer firings
MaxFired == 3

\* ------------------------------------------------------ program constants
Urgent == 0
Normal == 1
Background == 2
DefaultMaxConcurrentSessions == 16
DefaultLaneConcurrency == 1
Main == "main"
MAX_MESSAGES_PER_BATCH == 10
\* undefined, for the optional numeric fields of a run record and of an event
None == 0
\* archiveAfterMs in clock ticks
ArchiveAfter == 1
\* 5 * 60 * 1000 ms and 60 * 1000 ms, in minutes
AUTH_CACHE_TTL_MS == 5
AUTH_CACHE_REFRESH_AHEAD_MS == 1

\* ------------------------------------------------------------ input sets
SessionIds == 1 .. MaxSessionTasks
LaneIds == (MaxSessionTasks + 1) .. (MaxSessionTasks + MaxLaneTasks)
TaskIds == SessionIds \cup LaneIds
\* priorities as passed by callers; the enum values and one value on each side
Priorities == {Urgent, Normal, Background}
LanePriorities == {0 - 1, Urgent, Normal, Background, 3}
\* lane names as passed by callers: " " trims to the empty string
LaneNames == {"main", "cron", " "}
\* session keys as passed by callers: "" is "no session key"
SessionKeys == {"", "a", "b", "c"}
RealSessionKeys == SessionKeys \ {""}
\* values handed to the concurrency setters (0 exercises the clamp to 1)
CapInputs == 0 .. MaxCap
Outcomes == {"ok", "err"}
\* the calls of coalesceMessage, numbered in the order they are made
CallIds == 1 .. MaxCalls
\* session keys of the coalescer, split at their colons: "session-1",
\* "session-2", "agent:main:subagent:run-123", "agent:subagent" (the word
\* without its colon) and "cron:job"
Subagent == "subagent"
CoalesceKeys ==
  {<<"session-1">>, <<"session-2">>, <<"agent", "main", Subagent, "run-123">>,
   <<"agent", Subagent>>, <<"cron", "job">>}
Texts == {"a", "b"}
\* excludePatterns: a pattern is the key segment its RegExp looks for
PatternInputs == {{}, {"cron"}}
ConfigInputs ==
  [enabled : BOOLEAN, maxMessages : 1 .. MaxBatch, excludePatterns : PatternInputs]
\* subagent runs and waitForSubagentRun calls, numbered in the order made
RunIds == 1 .. MaxRuns
WaiterIds == 1 .. MaxWaiters
\* clock readings (Date.now()) and timestamps carried by events
Times == 1 .. MaxTime
ParentKeys == {"agent:main:main"}
CleanupPolicies == {"delete", "keep"}
\* timeoutMs handed to waitForActiveTasks
DrainTimeouts == {0, 500}
\* the preloadAuth calls made from outside: a call takes the smallest
\* number not in use; a settled call gives its number back when the next
\* call is made or settles
AuthCallIds == 1 .. MaxAuthCalls
\* normalized provider ids, profile ids and "no profile" (profileId undefined)
Providers == {"anthropic"}
NoProfile == ""
Profiles == {"P1", "P2", "P3"}
\* timer labels and the patterns handed to clearTimersByLabel, letter by
\* letter: "ab", "bc" and the patterns "a", "b", "bc"
TimerLabels == {<<"a", "b">>, <<"b", "c">>}
LabelPatterns == {<<"a">>, <<"b">>, <<"b", "c">>}
\* the ids a caller may hold: `${label}-${n}`
TimerIds == TimerLabels \X (1 .. MaxTimers)

VARIABLES
  lanes,                  \* Map<string, LaneState>
  nextTaskId,             \* let nextTaskId = 1
  sessionLanes,           \* Map<string, SessionLaneState>: the values
  sessionOrder,           \* Map<string, SessionLaneState>: key insertion order
  maxConcurrentSessions,  \* let maxConcurrentSessions = 16
  activeSessionCount,     \* let activeSessionCount = 0
  promise,                \* the promises returned by the two enqueue functions
  running,                \* the async task runners awaiting entry.task()
  enqOrder,               \* ids of the entries queued or running, oldest enqueue first
  drainWait,              \* the waitForActiveTasks call: its closure and its promise
  activeWindows,          \* Map<string, CoalesceWindow>
  windowTimers,           \* the armed window timers: timer -> the sessionKey of its callback
  globalConfig,           \* let globalConfig
  callPromise,            \* the promises returned by coalesceMessage, per call
  subagentRuns,           \* Map<string, SubagentRunRecord>
  persisted,              \* the registry file written by saveSubagentRegistryToDisk
  completionWaiters,      \* Map<string, Set<callback>>: the sets in insertion order
  waitPromise,            \* the promises returned by waitForSubagentRun, per call
  listenerStarted,        \* let listenerStarted = false
  restoreAttempted,       \* var restoreAttempted = false
  resumedRuns,            \* const resumedRuns = new Set<string>()
  sweepTimer,             \* let sweepTimer: the number of armed sweep timers, 0 for null
  sweeps,                 \* the sweepSubagentRuns calls awaiting callGateway
  announceFlows,          \* the runSubagentAnnounceFlow calls in flight
  announced,              \* per run, how often an announce flow delivered
  usedRunIds,             \* the run ids registered so far
  restarts,               \* how often the process was restarted
  effects,                \* what the last handler did, in order
  authCache,              \* Map<string, CacheEntry>
  cacheAccessOrder,       \* const cacheAccessOrder: string[]
  refreshInProgress,      \* const refreshInProgress = new Set<string>()
  authClock,              \* Date.now(), in minutes
  authCall,               \* the promises returned by preloadAuth, per outside call
  refreshes,              \* the background refreshes awaiting the resolver
  invalidated,            \* per key: invalidated and not preloaded (unforced) since
  findCall,               \* the findAvailableAuth call: its position and its log
  activeTimers,           \* const activeTimers = new Map<string, TimerEntry>()
  nextId,                 \* let nextId = 1
  totalCreated,           \* let totalCreated = 0
  totalFired,             \* let totalFired = 0
  totalCancelled,         \* let totalCancelled = 0
  timerHandles,           \* the runtime's armed timers: handle -> its wrappedCallback
  timerCallback,          \* the timer whose user callback is running, if any
  timerReturn             \* what the last call of the timer manager returned

coalesceVars == <<activeWindows, windowTimers, globalConfig, callPromise>>
registryVars == <<subagentRuns, persisted, completionWaiters, waitPromise, listenerStarted,
                  restoreAttempted, resumedRuns, sweepTimer, sweeps, announceFlows,
                  announced, usedRunIds, restarts, effects>>
\* the state of src/agents, which no command-queue operation touches
authVars == <<authCache, cacheAccessOrder, refreshInProgress, authClock, authCall,
              refreshes, invalidated, findCall>>
\* the state of src/infra/timer-manager.ts
timerVars == <<activeTimers, nextId, totalCreated, totalFired, totalCancelled,
               timerHandles, timerCallback, timerReturn>>
\* what no enqueue, settle, cap or clear operation of the queue touches
agentVars == <<coalesceVars, registryVars, authVars, timerVars, drainWait>>

vars == <<lanes, nextTaskId, sessionLanes, sessionOrder, maxConcurrentSessions,
          activeSessionCount, promise, running, enqOrder, agentVars>>

laneVars == <<lanes, nextTaskId>>
sessionVars == <<sessionLanes, sessionOrder, maxConcurrentSessions, activeSessionCount>>

\* ------------------------------------------------------------- utilities
Max(a, b) == IF a >= b THEN a ELSE b
Min(a, b) == IF a <= b THEN a ELSE b

RECURSIVE SumSeq(_)
SumSeq(s) == IF Len(s) = 0 THEN 0 ELSE Head(s) + SumSeq(Tail(s))

Range(s) == {s[i] : i \in 1 .. Len(s)}

InsertAt(s, i, e) == SubSeq(s, 1, i - 1) \o <<e>> \o SubSeq(s, i, Len(s))

Without(s, ids) == SelectSeq(s, LAMBDA x : x \notin ids)

PendingPromise == [state |-> "pending", value |-> <<>>]
NoPromise == [state |-> "none", value |-> <<>>]

\* named lanes: the identities never used; session lanes: the identities no
\* caller holds as a pending promise
UnusedIds == {t \in LaneIds : promise[t].state = "none"}
FreeIds == {t \in SessionIds : promise[t].state # "pending"}

\* `new Promise`: the new promise takes the smallest identity available
NewPromiseId(ids) == CHOOSE t \in ids : \A u \in ids : t <= u

\* ------------------------------------------------------------ named lanes
CreateEmptyBuckets == <<<<>>, <<>>, <<>>>>

NewLaneState(lane) ==
  [lane |-> lane, buckets |-> CreateEmptyBuckets, active |-> 0,
   activeTaskIds |-> {}, maxConcurrent |-> DefaultLaneConcurrency, draining |-> FALSE]

\* getLaneState: the map after the lookup, with the lane created when absent
GetLaneState(ls, lane) ==
  IF lane \in DOMAIN ls THEN ls ELSE (lane :> NewLaneState(lane)) @@ ls

\* lane.trim() || CommandLane.Main
CleanLane(lane) == IF lane \in {"", " "} THEN Main ELSE lane

GetTotalQueued(state) == SumSeq([i \in 1 .. Len(state.buckets) |-> Len(state.buckets[i])])

\* index of the bucket dequeueHighestPriority takes from (0: all are empty)
FirstNonEmptyBucketBug(state) ==
  LET ne == {i \in 1 .. Len(state.buckets) : Len(state.buckets[i]) > 0}
  IN IF ne = {} THEN 0 ELSE CHOOSE i \in ne : \A j \in ne : i >= j

FirstNonEmptyBucket(state) ==
  LET ne == {i \in 1 .. Len(state.buckets) : Len(state.buckets[i]) > 0}
  IN IF ne = {} THEN 0 ELSE CHOOSE i \in ne : \A j \in ne : i <= j

\* bucket index (1-based) an entry of the given priority is pushed to
BucketIndex(state, priority) == Min(Max(0, priority), Len(state.buckets) - 1) + 1

EnqueueWithPriority(state, entry) ==
  LET b == BucketIndex(state, entry.priority)
  IN [state EXCEPT !.buckets[b] = Append(@, entry)]

\* the pump's loop condition on the lane's slots
HasSlotBug(state) == state.active <= state.maxConcurrent

HasSlot(state) == state.active < state.maxConcurrent

\* the onWait option of an entry: "none" stands for no callback, or one
\* that returns, or a wait below warnAfterMs; "throws" for warnAfterMs: 0
\* with a callback that throws
NoOnWait == "none"
OnWaitInputs == {NoOnWait, "throws"}

\* if (waitedMs >= entry.warnAfterMs) entry.onWait?.(...) throws
OnWaitThrows(entry) == entry.onWait = "throws"

\* the error onWait throws, as the caller of entry `id` gets it
OnWaitError(pr, id) == [pr EXCEPT ![id] = [state |-> "rejected", value |-> <<"onWait", id>>]]

\* The scheduler state a pump works on: L.lanes, L.next (nextTaskId),
\* L.run (task runners started so far), L.thrown (an exception is on its
\* way up the stack), L.lost (the entries dequeued and dropped by it).
RECURSIVE Pump(_, _)
Pump(L, lane) ==
  LET state == L.lanes[lane]
      b == FirstNonEmptyBucket(state)
  IN IF HasSlot(state) /\ GetTotalQueued(state) > 0 /\ b # 0
     THEN LET entry == Head(state.buckets[b])
              dequeued == [state EXCEPT !.buckets[b] = Tail(@)]
              started == [dequeued EXCEPT !.active = @ + 1,
                                          !.activeTaskIds = @ \cup {L.next}]
          IN IF OnWaitThrows(entry)
             THEN [L EXCEPT !.lanes[lane] = dequeued,
                            !.thrown = TRUE,
                            !.lost = @ \cup {entry.id}]
             ELSE Pump([L EXCEPT !.lanes[lane] = started,
                                 !.next = @ + 1,
                                 !.run = @ \cup {[kind |-> "lane", key |-> lane,
                                                  entry |-> entry, taskId |-> L.next]}],
                       lane)
     ELSE [L EXCEPT !.lanes[lane].draining = FALSE]

DrainLane(L, lane) ==
  LET L1 == [L EXCEPT !.lanes = GetLaneState(L.lanes, lane)]
  IN IF L1.lanes[lane].draining
     THEN L1
     ELSE Pump([L1 EXCEPT !.lanes[lane].draining = TRUE], lane)

LaneSched ==
  [lanes |-> lanes, next |-> nextTaskId, run |-> running, thrown |-> FALSE, lost |-> {}]

\* what `await entry.task()` yields: the result the task of this entry
\* returns ("ok") or the error it throws ("err")
TaskValue(entry, outcome) == <<outcome, entry.id>>

\* settle the caller's promise: entry.resolve(result) / entry.reject(err)
SettlePromiseBug(pr, entry, outcome) ==
  [pr EXCEPT ![entry.id] = [state |-> "resolved", value |-> TaskValue(entry, outcome)]]

SettlePromise(pr, entry, outcome) ==
  [pr EXCEPT ![entry.id] =
     [state |-> IF outcome = "ok" THEN "resolved" ELSE "rejected",
      value |-> TaskValue(entry, outcome)]]

\* enqueueCommandInLane(lane, task, {priority, warnAfterMs, onWait}): an
\* exception in the executor of `new Promise` rejects the promise
EnqueueCommandInLaneWith(lane, id, priority, onWait) ==
  LET cleaned == CleanLane(lane)
      ls == GetLaneState(lanes, cleaned)
      entry == [id |-> id, priority |-> priority, sessionKey |-> "", onWait |-> onWait]
      queued == [ls EXCEPT ![cleaned] = EnqueueWithPriority(@, entry)]
      L == DrainLane([LaneSched EXCEPT !.lanes = queued], cleaned)
      pending == [promise EXCEPT ![id] = PendingPromise]
  IN /\ UnusedIds # {}
     /\ id = NewPromiseId(UnusedIds)
     /\ lanes' = L.lanes
     /\ nextTaskId' = L.next
     /\ running' = L.run
     /\ promise' = IF L.thrown THEN OnWaitError(pending, id) ELSE pending
     /\ enqOrder' = Without(Append(enqOrder, id), L.lost)
     /\ UNCHANGED <<sessionVars, agentVars>>

\* enqueueCommandInLane(lane, task, {priority})
EnqueueCommandInLane(lane, id, priority) == EnqueueCommandInLaneWith(lane, id, priority, NoOnWait)

\* enqueueCommand(task, opts): the main lane
EnqueueCommand(id, priority) == EnqueueCommandInLane(Main, id, priority)

\* the continuation of a named-lane task runner after `await entry.task()`
\* state.active -= 1; state.activeTaskIds.delete(taskId); pump(): the same
\* three statements in the try block and in the catch block of the runner
ReleaseAndPump(L, r) ==
  Pump([L EXCEPT !.lanes[r.key].active = @ - 1,
                 !.lanes[r.key].activeTaskIds = @ \ {r.taskId},
                 !.thrown = FALSE],
       r.key)

\* the continuation of a named-lane task runner after `await entry.task()`:
\* an exception of pump() in the try block is caught by the runner's own
\* catch block, one in the catch block leaves the runner
SettleLaneTask(r, outcome) ==
  LET tried == ReleaseAndPump([LaneSched EXCEPT !.run = running \ {r}], r)
      caught == outcome = "ok" /\ tried.thrown
      L == IF caught THEN ReleaseAndPump(tried, r) ELSE tried
  IN /\ r \in running
     /\ r.kind = "lane"
     /\ lanes' = L.lanes
     /\ nextTaskId' = L.next
     /\ running' = L.run
     /\ promise' = IF L.thrown THEN promise
                   ELSE IF caught THEN OnWaitError(promise, r.entry.id)
                   ELSE SettlePromise(promise, r.entry, outcome)
     /\ enqOrder' = Without(enqOrder, {r.entry.id} \cup L.lost)
     /\ UNCHANGED <<sessionVars, agentVars>>

\* Math.max(1, Math.floor(n)) on the integers
ClampConcurrency(n) == Max(1, n)

SetCommandLaneConcurrency(lane, maxConcurrent) ==
  LET cleaned == CleanLane(lane)
      ls == GetLaneState(lanes, cleaned)
      set == [ls EXCEPT ![cleaned].maxConcurrent = ClampConcurrency(maxConcurrent)]
      L == DrainLane([LaneSched EXCEPT !.lanes = set], cleaned)
  IN /\ lanes' = L.lanes
     /\ nextTaskId' = L.next
     /\ running' = L.run
     /\ UNCHANGED <<promise, enqOrder, sessionVars, agentVars>>

LaneEntryIds(state) ==
  UNION {{state.buckets[b][i].id : i \in 1 .. Len(state.buckets[b])} :
         b \in 1 .. Len(state.buckets)}

ClearCommandLane(lane) ==
  LET cleaned == CleanLane(lane)
  IN /\ IF cleaned \notin DOMAIN lanes
        THEN UNCHANGED <<lanes, enqOrder>>
        ELSE /\ lanes' = [lanes EXCEPT ![cleaned].buckets = CreateEmptyBuckets]
             /\ enqOrder' = Without(enqOrder, LaneEntryIds(lanes[cleaned]))
     /\ UNCHANGED <<nextTaskId, promise, running, sessionVars, agentVars>>

\* ---------------------------------------------------------- session lanes
NewSessionLaneState(sessionKey) ==
  [sessionKey |-> sessionKey, queue |-> <<>>, active |-> FALSE]

\* The scheduler state the session drain works on: S.lanes (the map's values),
\* S.order (its keys in insertion order), S.count (activeSessionCount),
\* S.max (maxConcurrentSessions), S.run (task runners).
GetSessionLaneState(S, sessionKey) ==
  IF sessionKey \in DOMAIN S.lanes THEN S
  ELSE [S EXCEPT !.lanes = (sessionKey :> NewSessionLaneState(sessionKey)) @@ S.lanes,
                 !.order = Append(S.order, sessionKey)]

\* the three guards of drainSessionLane
MayActivateWhileActive(S, state) ==
  /\ Len(state.queue) # 0
  /\ ~(S.count >= S.max)

MayActivateAboveCap(S, state) ==
  /\ ~state.active
  /\ Len(state.queue) # 0

MayActivate(S, state) ==
  /\ ~state.active
  /\ Len(state.queue) # 0
  /\ ~(S.count >= S.max)

DrainSessionLane(S0, sessionKey) ==
  LET S == GetSessionLaneState(S0, sessionKey)
      state == S.lanes[sessionKey]
      taken == [S EXCEPT !.lanes[sessionKey].queue = Tail(@),
                         !.lanes[sessionKey].active = TRUE,
                         !.count = @ + 1]
  IN IF ~MayActivate(S, state) THEN S
     ELSE IF OnWaitThrows(Head(state.queue))
     THEN [taken EXCEPT !.thrown = TRUE, !.lost = @ \cup {Head(state.queue).id}]
     ELSE [taken EXCEPT !.run = @ \cup {[kind |-> "session", key |-> sessionKey,
                                         entry |-> Head(state.queue), taskId |-> 0]}]

\* the for-of loop of drainWaitingSessions from position i of the map
RECURSIVE ScanSessions(_, _)
ScanSessions(S, i) ==
  IF i > Len(S.order) THEN S
  ELSE LET state == S.lanes[S.order[i]]
       IN IF ~state.active /\ Len(state.queue) > 0
          THEN LET S1 == DrainSessionLane(S, S.order[i])
               IN IF S1.thrown \/ S1.count >= S1.max THEN S1 ELSE ScanSessions(S1, i + 1)
          ELSE ScanSessions(S, i + 1)

DrainWaitingSessionsBug(S) == S

\* the scan taken from the youngest session lane to the oldest
DrainWaitingSessionsReversed(S) ==
  LET n == Len(S.order)
      R == ScanSessions([S EXCEPT !.order = [i \in 1 .. n |-> S.order[n + 1 - i]]], 1)
  IN IF S.count >= S.max THEN S ELSE [R EXCEPT !.order = S.order]

DrainWaitingSessions(S) ==
  IF S.count >= S.max THEN S ELSE ScanSessions(S, 1)

SessionSched ==
  [lanes |-> sessionLanes, order |-> sessionOrder, count |-> activeSessionCount,
   max |-> maxConcurrentSessions, run |-> running, thrown |-> FALSE, lost |-> {}]

\* position at which enqueueSessionTask puts an entry of the given priority
InsertPositionBug(queue, priority) == Len(queue) + 1

InsertPosition(queue, priority) ==
  LET later == {i \in 1 .. Len(queue) : queue[i].priority > priority}
  IN IF later = {} THEN Len(queue) + 1 ELSE CHOOSE i \in later : \A j \in later : i <= j

ApplySessionSched(S) ==
  /\ sessionLanes' = S.lanes
  /\ sessionOrder' = S.order
  /\ activeSessionCount' = S.count
  /\ maxConcurrentSessions' = S.max
  /\ running' = S.run

\* enqueueSessionTask(task, {sessionKey, priority, warnAfterMs, onWait})
EnqueueSessionTaskWith(sessionKey, id, priority, onWait) ==
  IF sessionKey = ""
  THEN EnqueueCommandInLaneWith(Main, id, priority, onWait)
  ELSE LET S0 == GetSessionLaneState(SessionSched, sessionKey)
           entry == [id |-> id, priority |-> priority, sessionKey |-> sessionKey,
                     onWait |-> onWait]
           queue == S0.lanes[sessionKey].queue
           S1 == [S0 EXCEPT !.lanes[sessionKey].queue =
                              InsertAt(queue, InsertPosition(queue, priority), entry)]
           S == DrainSessionLane(S1, sessionKey)
           pending == [promise EXCEPT ![id] = PendingPromise]
       IN /\ FreeIds # {}
          /\ id = NewPromiseId(FreeIds)
          /\ ApplySessionSched(S)
          /\ promise' = IF S.thrown THEN OnWaitError(pending, id) ELSE pending
          /\ enqOrder' = Without(Append(enqOrder, id), S.lost)
          /\ UNCHANGED <<laneVars, agentVars>>

\* enqueueSessionTask(task, {sessionKey, priority})
EnqueueSessionTask(sessionKey, id, priority) ==
  EnqueueSessionTaskWith(sessionKey, id, priority, NoOnWait)

\* the continuation of a session task runner after `await entry.task()`
\* state.active = false; activeSessionCount -= 1;
\* drainSessionLane(sessionKey); drainWaitingSessions(): the same statements
\* in the try block and in the catch block of the runner
ReleaseAndDrain(S, r) ==
  LET drained == DrainSessionLane([S EXCEPT !.lanes[r.key].active = FALSE,
                                            !.count = @ - 1,
                                            !.thrown = FALSE],
                                  r.key)
  IN IF drained.thrown THEN drained ELSE DrainWaitingSessions(drained)

\* the continuation of a session task runner after `await entry.task()`
SettleSessionTask(r, outcome) ==
  LET tried == ReleaseAndDrain([SessionSched EXCEPT !.run = @ \ {r}], r)
      caught == outcome = "ok" /\ tried.thrown
      S == IF caught THEN ReleaseAndDrain(tried, r) ELSE tried
  IN /\ r \in running
     /\ r.kind = "session"
     /\ ApplySessionSched(S)
     /\ promise' = IF S.thrown THEN promise
                   ELSE IF caught THEN OnWaitError(promise, r.entry.id)
                   ELSE SettlePromise(promise, r.entry, outcome)
     /\ enqOrder' = Without(enqOrder, {r.entry.id} \cup S.lost)
     /\ UNCHANGED <<laneVars, agentVars>>

SetMaxConcurrentSessions(max) ==
  LET previous == maxConcurrentSessions
      S0 == [SessionSched EXCEPT !.max = ClampConcurrency(max)]
      S == IF S0.max > previous THEN DrainWaitingSessions(S0) ELSE S0
  IN /\ ApplySessionSched(S)
     /\ UNCHANGED <<promise, enqOrder, laneVars, agentVars>>

ClearSessionLane(sessionKey) ==
  /\ IF sessionKey \notin DOMAIN sessionLanes
     THEN UNCHANGED <<sessionLanes, enqOrder>>
     ELSE /\ sessionLanes' = [sessionLanes EXCEPT ![sessionKey].queue = <<>>]
          /\ enqOrder' = Without(enqOrder,
               {sessionLanes[sessionKey].queue[i].id :
                  i \in 1 .. Len(sessionLanes[sessionKey].queue)})
  /\ UNCHANGED <<sessionOrder, maxConcurrentSessions, activeSessionCount,
                 promise, running, laneVars, agentVars>>

\* ------------------------------------------------------- coalescer
queueVars == <<lanes, nextTaskId, sessionLanes, sessionOrder, maxConcurrentSessions,
               activeSessionCount, promise, running, enqOrder, drainWait>>

\* what waitForActiveTasks and its polls leave alone
pumpVars == <<lanes, nextTaskId, sessionLanes, sessionOrder, maxConcurrentSessions,
              activeSessionCount, promise, running, enqOrder>>

\* waitForActiveTasks: no call made. `late` is Date.now() >= deadline;
\* `missed` records that the deadline passed while a task of activeAtStart
\* was executing
NoDrainWait ==
  [state |-> "none", activeAtStart |-> {}, late |-> FALSE, missed |-> FALSE,
   drained |-> FALSE, calls |-> 0]

\* the task ids in activeTaskIds of all lanes
ActiveTaskIds == UNION {lanes[l].activeTaskIds : l \in DOMAIN lanes}

\* hasPending of check()
HasPending(W) == \E l \in DOMAIN lanes : lanes[l].activeTaskIds \cap W.activeAtStart # {}

CheckBug(W) ==
  IF W.activeAtStart = {} THEN [W EXCEPT !.state = "resolved", !.drained = TRUE]
  ELSE IF W.late THEN [W EXCEPT !.state = "resolved", !.drained = FALSE]
  ELSE IF ~HasPending(W) THEN [W EXCEPT !.state = "resolved", !.drained = TRUE]
  ELSE [W EXCEPT !.state = "polling"]

\* check() of waitForActiveTasks
Check(W) ==
  IF W.activeAtStart = {} THEN [W EXCEPT !.state = "resolved", !.drained = TRUE]
  ELSE IF ~HasPending(W) THEN [W EXCEPT !.state = "resolved", !.drained = TRUE]
  ELSE IF W.late THEN [W EXCEPT !.state = "resolved", !.drained = FALSE]
  ELSE [W EXCEPT !.state = "polling"]

\* waitForActiveTasks(timeoutMs), with its first check()
WaitForActiveTasks(timeoutMs) ==
  LET W == [NoDrainWait EXCEPT !.activeAtStart = ActiveTaskIds,
                               !.late = (timeoutMs <= 0),
                               !.missed = (timeoutMs <= 0 /\ ActiveTaskIds # {}),
                               !.calls = drainWait.calls + 1]
  IN /\ drainWait.state \in {"none", "resolved"}
     /\ drainWait.calls < MaxDrains
     /\ drainWait' = Check(W)
     /\ UNCHANGED <<pumpVars, coalesceVars, registryVars, authVars, timerVars>>

\* the clock reaches the deadline of the call
DeadlinePasses ==
  /\ drainWait.state = "polling"
  /\ ~drainWait.late
  /\ drainWait' = [drainWait EXCEPT !.late = TRUE, !.missed = HasPending(drainWait)]
  /\ UNCHANGED <<pumpVars, coalesceVars, registryVars, authVars, timerVars>>

\* setTimeout(check, POLL_INTERVAL_MS) fires
PollTimer ==
  /\ drainWait.state = "polling"
  /\ drainWait' = Check(drainWait)
  /\ UNCHANGED <<pumpVars, coalesceVars, registryVars, authVars, timerVars>>

defaultConfig ==
  [enabled |-> TRUE, maxMessages |-> MAX_MESSAGES_PER_BATCH, excludePatterns |-> {}]

NoCall == [state |-> "none", value |-> <<>>, sessionKey |-> <<>>]

\* sessionKey.includes("subagent:"): the word followed by a colon
IncludesSubagentBug(sessionKey) == FALSE

IncludesSubagent(sessionKey) ==
  \E i \in 1 .. Len(sessionKey) - 1 : sessionKey[i] = Subagent

\* pattern.test(sessionKey)
PatternTest(pattern, sessionKey) ==
  \E i \in 1 .. Len(sessionKey) : sessionKey[i] = pattern

ShouldSkipCoalescing(config, sessionKey) ==
  \/ ~config.enabled
  \/ IncludesSubagent(sessionKey)
  \/ \E pattern \in config.excludePatterns : PatternTest(pattern, sessionKey)

\* the calls whose promise has not been handed out yet
UnusedCalls == {c \in CallIds : callPromise[c].state = "none"}

\* existing.messages.push(message)
PushMessageBug(messages, message) == <<message>> \o messages

PushMessage(messages, message) == Append(messages, message)

\* a promise resolves once: a later call of its resolve function is ignored
ResolveCall(P, c, value) ==
  IF P[c].state = "pending" THEN [P EXCEPT ![c].state = "resolved", ![c].value = value]
  ELSE P

\* window.resolve(window.messages): the chain of wrapped resolve functions,
\* oldest caller first
RECURSIVE ResolveChain(_, _, _)
ResolveChain(P, chain, value) ==
  IF chain = <<>> THEN P
  ELSE ResolveChain(ResolveCall(P, Head(chain), value), Tail(chain), value)

Remove(W, k) == [x \in DOMAIN W \ {k} |-> W[x]]

\* closeWindow(sessionKey) on the windows, armed timers and promises of C
CloseWindowBug(C, sessionKey) ==
  IF sessionKey \notin DOMAIN C.windows THEN C
  ELSE [windows |-> <<>>,
        timers |-> Remove(C.timers, C.windows[sessionKey].timer),
        promises |-> ResolveChain(C.promises, C.windows[sessionKey].resolve,
                                  C.windows[sessionKey].messages)]

CloseWindowKeepsTimer(C, sessionKey) ==
  IF sessionKey \notin DOMAIN C.windows THEN C
  ELSE [windows |-> Remove(C.windows, sessionKey),
        timers |-> C.timers,
        promises |-> ResolveChain(C.promises, C.windows[sessionKey].resolve,
                                  C.windows[sessionKey].messages)]

CloseWindow(C, sessionKey) ==
  IF sessionKey \notin DOMAIN C.windows THEN C
  ELSE [windows |-> Remove(C.windows, sessionKey),
        timers |-> Remove(C.timers, C.windows[sessionKey].timer),
        promises |-> ResolveChain(C.promises, C.windows[sessionKey].resolve,
                                  C.windows[sessionKey].messages)]

Coalescer == [windows |-> activeWindows, timers |-> windowTimers, promises |-> callPromise]

ApplyCoalescer(C) ==
  /\ activeWindows' = C.windows
  /\ windowTimers' = C.timers
  /\ callPromise' = C.promises

\* configureCoalescing(config)
ConfigureCoalescing(config) ==
  /\ globalConfig' = config
  /\ UNCHANGED <<activeWindows, windowTimers, callPromise, queueVars, registryVars, authVars,
                 timerVars>>

\* coalesceMessage(sessionKey, message): `call` is the identity of the call,
\* of the message object it passes and of the promise it gets back
CoalesceMessage(sessionKey, text, call) ==
  LET message == [text |-> text, call |-> call]
      fresh == [callPromise EXCEPT ![call] =
                  [state |-> "pending", value |-> <<>>, sessionKey |-> sessionKey]]
  IN /\ UnusedCalls # {}
     /\ call = NewPromiseId(UnusedCalls)
     /\ IF ShouldSkipCoalescing(globalConfig, sessionKey)
        THEN ApplyCoalescer([windows |-> activeWindows, timers |-> windowTimers,
                             promises |-> ResolveCall(fresh, call, <<message>>)])
        ELSE IF sessionKey \in DOMAIN activeWindows
        THEN LET pushed == [activeWindows EXCEPT ![sessionKey].messages =
                              PushMessage(@, message)]
                 C0 == [windows |-> pushed, timers |-> windowTimers, promises |-> fresh]
                 C1 == IF Len(pushed[sessionKey].messages) >= globalConfig.maxMessages
                       THEN CloseWindow(C0, sessionKey)
                       ELSE C0
                 \* existing.resolve = wrapper: `existing` is the window object
                 \* looked up before the push, in the map or not
                 C2 == IF sessionKey \in DOMAIN C1.windows
                       THEN [C1 EXCEPT !.windows[sessionKey].resolve = Append(@, call)]
                       ELSE C1
             IN ApplyCoalescer(C2)
        \* the timer of the new window is named after the call that arms it
        ELSE ApplyCoalescer(
               [windows |-> (sessionKey :> [messages |-> <<message>>, resolve |-> <<call>>,
                                            timer |-> call])
                              @@ activeWindows,
                timers |-> (call :> sessionKey) @@ windowTimers,
                promises |-> fresh])
     /\ UNCHANGED <<globalConfig, queueVars, registryVars, authVars, timerVars>>

\* an armed window timer fires: setTimeout(() => closeWindow(sessionKey),
\* windowMs) closes the window that is in the map under its sessionKey
WindowTimer(timer) ==
  /\ timer \in DOMAIN windowTimers
  /\ ApplyCoalescer(CloseWindow([Coalescer EXCEPT !.timers = Remove(@, timer)],
                                windowTimers[timer]))
  /\ UNCHANGED <<globalConfig, queueVars, registryVars, authVars, timerVars>>

FlushCoalesceWindow(sessionKey) ==
  /\ ApplyCoalescer(CloseWindow(Coalescer, sessionKey))
  /\ UNCHANGED <<globalConfig, queueVars, registryVars, authVars, timerVars>>

RECURSIVE CloseAll(_, _)
CloseAll(C, keys) ==
  IF keys = {} THEN C
  ELSE LET k == CHOOSE x \in keys : TRUE
       IN CloseAll(CloseWindow(C, k), keys \ {k})

ClearAllWindows ==
  /\ ApplyCoalescer(CloseAll(Coalescer, DOMAIN activeWindows))
  /\ UNCHANGED <<globalConfig, queueVars, registryVars, authVars, timerVars>>

HasActiveWindow(sessionKey) == sessionKey \in DOMAIN activeWindows

GetPendingCount(sessionKey) ==
  IF sessionKey \in DOMAIN activeWindows THEN Len(activeWindows[sessionKey].messages) ELSE 0

\* ------------------------------------------------------- subagent registry
\* the registry state the handlers work on
Registry ==
  [runs |-> subagentRuns, disk |-> persisted, waiters |-> completionWaiters,
   promises |-> waitPromise, listener |-> listenerStarted, resumed |-> resumedRuns,
   sweepTimer |-> sweepTimer, sweeps |-> sweeps, flows |-> announceFlows,
   effects |-> <<>>]

ApplyRegistry(G) ==
  /\ subagentRuns' = G.runs
  /\ persisted' = G.disk
  /\ completionWaiters' = G.waiters
  /\ waitPromise' = G.promises
  /\ listenerStarted' = G.listener
  /\ resumedRuns' = G.resumed
  /\ sweepTimer' = G.sweepTimer
  /\ sweeps' = G.sweeps
  /\ announceFlows' = G.flows
  /\ effects' = G.effects

NoOutcome == [status |-> "", error |-> ""]

\* the record registerSubagentRun stores
NewRunRecord(runId, requesterSessionKey, cleanup, archive, now) ==
  [runId |-> runId, requesterSessionKey |-> requesterSessionKey, cleanup |-> cleanup,
   createdAt |-> now, startedAt |-> now, endedAt |-> None, outcome |-> NoOutcome,
   archiveAtMs |-> IF archive THEN now + ArchiveAfter ELSE None,
   cleanupCompletedAt |-> None, cleanupHandled |-> FALSE]

NoWaiter == [state |-> "none", runId |-> None, value |-> <<>>]

\* the value a waiter resolves with: the record, or null
Record(entry) == <<entry>>
Null == <<>>

\* the store: the whole map is written to the file and read back with
\* every field of every record
SaveSubagentRegistryToDisk(G) == [G EXCEPT !.disk = G.runs]

LoadSubagentRegistryFromDisk(G) == G.disk

PersistSubagentRuns(G) == SaveSubagentRegistryToDisk(G)

EnsureListener(G) == [G EXCEPT !.listener = TRUE]

\* if (sweepTimer) { clearTimeout(sweepTimer); sweepTimer = null }
ClearTimeout(armed) == IF armed > 0 THEN armed - 1 ELSE armed

\* scheduleSweepIfNeeded(): the pending timer is cancelled and a new one is
\* armed if some record has archiveAtMs
ScheduleSweepIfNeededBug(G) ==
  [G EXCEPT !.sweepTimer =
     IF \E r \in DOMAIN G.runs : G.runs[r].archiveAtMs # None THEN @ + 1 ELSE @]

ScheduleSweepIfNeeded(G) ==
  [G EXCEPT !.sweepTimer =
     IF \E r \in DOMAIN G.runs : G.runs[r].archiveAtMs # None
     THEN ClearTimeout(@) + 1
     ELSE ClearTimeout(@)]

StopSweeper(G) == [G EXCEPT !.sweepTimer = ClearTimeout(@)]

\* finish(record) of waiter w, with its `settled` guard
FinishBug(G, w, value) ==
  IF G.promises[w].state # "pending" THEN G
  ELSE [G EXCEPT !.promises[w].state = "resolved", !.promises[w].value = value]

Finish(G, w, value) ==
  IF G.promises[w].state # "pending" THEN G
  ELSE LET runId == G.promises[w].runId
           Other(x) == x # w
           left == IF runId \in DOMAIN G.waiters
                   THEN SelectSeq(G.waiters[runId], Other)
                   ELSE <<>>
           waiters == IF runId \notin DOMAIN G.waiters THEN G.waiters
                      ELSE IF left = <<>> THEN Remove(G.waiters, runId)
                      ELSE [G.waiters EXCEPT ![runId] = left]
       IN [G EXCEPT !.promises[w].state = "resolved",
                    !.promises[w].value = value,
                    !.waiters = waiters]

\* for (const waiter of waiters) waiter(record)
RECURSIVE CallWaiters(_, _, _)
CallWaiters(G, ws, entry) ==
  IF ws = <<>> THEN G
  ELSE CallWaiters(
         [Finish(G, Head(ws), Record(entry)) EXCEPT
            !.effects = Append(@, [kind |-> "notify", who |-> Head(ws), record |-> entry])],
         Tail(ws), entry)

NotifyCompletionWaitersBug(G, runId, entry) == G

NotifyCompletionWaiters(G, runId, entry) ==
  IF runId \notin DOMAIN G.waiters \/ G.waiters[runId] = <<>> THEN G
  ELSE LET G1 == CallWaiters(G, G.waiters[runId], entry)
       IN [G1 EXCEPT !.waiters = Remove(G1.waiters, runId)]

\* emitSubagentCompletionEvent(record): the listener of the registry gets
\* the event too and ignores its phase
EmitSubagentCompletionEvent(G, entry) ==
  [G EXCEPT !.effects = Append(@, [kind |-> "subagent_complete",
                                   who |-> entry.requesterSessionKey, record |-> entry])]

\* beginSubagentCleanup(runId): <<returned value, state>>
BeginSubagentCleanup(G, runId) ==
  IF runId \notin DOMAIN G.runs THEN <<FALSE, G>>
  ELSE IF G.runs[runId].cleanupCompletedAt # None THEN <<FALSE, G>>
  ELSE IF G.runs[runId].cleanupHandled THEN <<FALSE, G>>
  ELSE <<TRUE, PersistSubagentRuns([G EXCEPT !.runs[runId].cleanupHandled = TRUE])>>

\* void runSubagentAnnounceFlow({...}).then(...): the flow is started with
\* the record's fields as they are now
RunSubagentAnnounceFlow(G, entry) ==
  [G EXCEPT !.flows = Append(@, [runId |-> entry.runId, cleanup |-> entry.cleanup]),
            !.effects = Append(@, [kind |-> "announce", who |-> entry.requesterSessionKey,
                                   record |-> entry])]

FinalizeSubagentCleanupBug(G, runId, cleanup, didAnnounce, now) ==
  IF runId \notin DOMAIN G.runs THEN G
  ELSE IF ~didAnnounce THEN G
  ELSE IF cleanup = "delete"
  THEN PersistSubagentRuns([G EXCEPT !.runs = Remove(G.runs, runId)])
  ELSE PersistSubagentRuns([G EXCEPT !.runs[runId].cleanupHandled = FALSE])

FinalizeSubagentCleanup(G, runId, cleanup, didAnnounce, now) ==
  IF runId \notin DOMAIN G.runs THEN G
  ELSE IF ~didAnnounce
  THEN PersistSubagentRuns([G EXCEPT !.runs[runId].cleanupHandled = FALSE])
  ELSE IF cleanup = "delete"
  THEN PersistSubagentRuns([G EXCEPT !.runs = Remove(G.runs, runId)])
  ELSE PersistSubagentRuns([G EXCEPT !.runs[runId].cleanupCompletedAt = now])

\* the outcome the listener computes from an end or error event
EventOutcome(evt) ==
  IF evt.phase = "error" THEN [status |-> "error", error |-> evt.error]
  ELSE IF evt.aborted THEN [status |-> "timeout", error |-> ""]
  ELSE [status |-> "ok", error |-> ""]

\* the callback ensureListener registers with onAgentEvent
Listener(G, evt, now) ==
  IF evt.stream # "lifecycle" THEN G
  ELSE IF evt.runId \notin DOMAIN G.runs THEN G
  ELSE IF evt.phase = "start"
  THEN IF evt.startedAt # None
       THEN PersistSubagentRuns([G EXCEPT !.runs[evt.runId].startedAt = evt.startedAt])
       ELSE G
  ELSE IF evt.phase \notin {"end", "error"} THEN G
  ELSE LET endedAt == IF evt.endedAt # None THEN evt.endedAt ELSE now
           G1 == PersistSubagentRuns(
                   [G EXCEPT !.runs[evt.runId].endedAt = endedAt,
                             !.runs[evt.runId].outcome = EventOutcome(evt)])
           entry == G1.runs[evt.runId]
           G2 == EmitSubagentCompletionEvent(NotifyCompletionWaiters(G1, evt.runId, entry), entry)
           begun == BeginSubagentCleanup(G2, evt.runId)
       IN IF ~begun[1] THEN begun[2]
          ELSE RunSubagentAnnounceFlow(begun[2], begun[2].runs[evt.runId])

\* the lifecycle events workers emit
StartEvent(runId, startedAt) ==
  [runId |-> runId, stream |-> "lifecycle", phase |-> "start", startedAt |-> startedAt,
   endedAt |-> None, error |-> "", aborted |-> FALSE]

EndEvent(runId, endedAt, aborted) ==
  [runId |-> runId, stream |-> "lifecycle", phase |-> "end", startedAt |-> None,
   endedAt |-> endedAt, error |-> "", aborted |-> aborted]

ErrorEvent(runId, endedAt, error) ==
  [runId |-> runId, stream |-> "lifecycle", phase |-> "error", startedAt |-> None,
   endedAt |-> endedAt, error |-> error, aborted |-> FALSE]

\* an event of another stream that carries an end phase
ToolEvent(runId) == [EndEvent(runId, None, FALSE) EXCEPT !.stream = "tool"]

UnusedRunIds == RunIds \ usedRunIds

UnusedWaiters == {w \in WaiterIds : waitPromise[w].state = "none"}

\* registerSubagentRun(params): `archive` says whether archiveAfterMinutes
\* is configured, `now` is Date.now()
RegisterSubagentRun(runId, requesterSessionKey, cleanup, archive, now) ==
  LET G0 == [Registry EXCEPT !.runs =
               (runId :> NewRunRecord(runId, requesterSessionKey, cleanup, archive, now))
                 @@ @]
      G1 == PersistSubagentRuns(EnsureListener(G0))
  IN /\ UnusedRunIds # {}
     /\ runId = NewPromiseId(UnusedRunIds)
     /\ ApplyRegistry(IF archive THEN ScheduleSweepIfNeeded(G1) ELSE G1)
     /\ usedRunIds' = usedRunIds \cup {runId}
     /\ UNCHANGED <<restoreAttempted, announced, restarts, queueVars, coalesceVars, authVars, timerVars>>

\* emitAgentEvent(evt): the bus calls the registry's listener if subscribed
EmitAgentEvent(evt, now) ==
  /\ ApplyRegistry(IF listenerStarted THEN Listener(Registry, evt, now) ELSE Registry)
  /\ UNCHANGED <<restoreAttempted, announced, usedRunIds, restarts, queueVars, coalesceVars, authVars, timerVars>>

\* waitForSubagentRun(runId, timeoutMs)
WaitForSubagentRun(w, runId) ==
  LET fresh == [Registry EXCEPT !.promises[w] =
                  [state |-> "pending", runId |-> runId, value |-> Null]]
      resolved(value) == [fresh EXCEPT !.promises[w].state = "resolved",
                                       !.promises[w].value = value]
  IN /\ UnusedWaiters # {}
     /\ w = NewPromiseId(UnusedWaiters)
     /\ ApplyRegistry(
          IF runId \in DOMAIN subagentRuns /\ subagentRuns[runId].endedAt # None
          THEN resolved(Record(subagentRuns[runId]))
          ELSE IF runId \notin DOMAIN subagentRuns
          THEN resolved(Null)
          ELSE [fresh EXCEPT !.waiters =
                  IF runId \in DOMAIN @ THEN [@ EXCEPT ![runId] = Append(@, w)]
                  ELSE (runId :> <<w>>) @@ @])
     /\ UNCHANGED <<restoreAttempted, announced, usedRunIds, restarts, queueVars, coalesceVars, authVars, timerVars>>

\* the timer of a waiter: setTimeout(() => finish(null), ...); finish clears it
WaiterTimeout(w) ==
  /\ waitPromise[w].state = "pending"
  /\ ApplyRegistry(Finish(Registry, w, Null))
  /\ UNCHANGED <<restoreAttempted, announced, usedRunIds, restarts, queueVars, coalesceVars, authVars, timerVars>>

\* the i-th announce flow in flight returns didAnnounce: the .then callback
AnnounceDone(i, didAnnounce, now) ==
  /\ i \in 1 .. Len(announceFlows)
  /\ LET flow == announceFlows[i]
         G0 == [Registry EXCEPT !.flows = SubSeq(@, 1, i - 1) \o SubSeq(@, i + 1, Len(@))]
     IN /\ ApplyRegistry(
             FinalizeSubagentCleanup(G0, flow.runId, flow.cleanup, didAnnounce, now))
        /\ announced' = IF didAnnounce
                        THEN [announced EXCEPT ![flow.runId] = Min(@ + 1, 2)]
                        ELSE announced
  /\ UNCHANGED <<restoreAttempted, usedRunIds, restarts, queueVars, coalesceVars, authVars, timerVars>>

\* the run ids of a set in Map order (runs are registered in id order)
RECURSIVE InOrder(_)
InOrder(ids) ==
  IF ids = {} THEN <<>>
  ELSE LET first == CHOOSE x \in ids : \A y \in ids : x <= y
       IN <<first>> \o InOrder(ids \ {first})

\* the loop of sweepSubagentRuns from the entry `todo` starts with, up to
\* its next await or its end
RECURSIVE RunSweep(_, _, _)
RunSweep(G, todo, mutated) ==
  IF todo = <<>>
  THEN ScheduleSweepIfNeeded(IF mutated THEN PersistSubagentRuns(G) ELSE G)
  ELSE IF Head(todo) \in DOMAIN G.runs
  THEN [G EXCEPT !.runs = Remove(G.runs, Head(todo)),
                 !.sweeps = Append(@, [todo |-> Tail(todo), child |-> Head(todo)])]
  ELSE RunSweep(G, Tail(todo), TRUE)

\* the sweep timer fires at clock reading `now`
SweepTimerFires(now) ==
  LET due == {r \in DOMAIN subagentRuns :
                subagentRuns[r].archiveAtMs # None /\ subagentRuns[r].archiveAtMs <= now}
  IN /\ sweepTimer > 0
     /\ ApplyRegistry(RunSweep([Registry EXCEPT !.sweepTimer = @ - 1], InOrder(due), FALSE))
     /\ UNCHANGED <<restoreAttempted, announced, usedRunIds, restarts, queueVars, coalesceVars, authVars, timerVars>>

\* `await callGateway(...)` of the i-th sweep in progress returns or throws
SweepResumes(i) ==
  /\ i \in 1 .. Len(sweeps)
  /\ LET G0 == [Registry EXCEPT !.sweeps = SubSeq(@, 1, i - 1) \o SubSeq(@, i + 1, Len(@))]
     IN ApplyRegistry(RunSweep(G0, sweeps[i].todo, TRUE))
  /\ UNCHANGED <<restoreAttempted, announced, usedRunIds, restarts, queueVars, coalesceVars, authVars, timerVars>>

ReleaseSubagentRun(runId) ==
  LET G0 == IF runId \in DOMAIN subagentRuns
            THEN PersistSubagentRuns([Registry EXCEPT !.runs = Remove(@, runId)])
            ELSE Registry
  IN /\ ApplyRegistry(IF DOMAIN G0.runs = {} THEN StopSweeper(G0) ELSE G0)
     /\ UNCHANGED <<restoreAttempted, announced, usedRunIds, restarts, queueVars, coalesceVars, authVars, timerVars>>

ResumeSubagentRun(G, runId) ==
  IF runId \in G.resumed THEN G
  ELSE IF runId \notin DOMAIN G.runs THEN G
  ELSE IF G.runs[runId].cleanupCompletedAt # None THEN G
  ELSE IF G.runs[runId].endedAt > 0
  THEN LET begun == BeginSubagentCleanup(G, runId)
       IN IF ~begun[1] THEN begun[2]
          ELSE [RunSubagentAnnounceFlow(begun[2], begun[2].runs[runId]) EXCEPT
                  !.resumed = @ \cup {runId}]
  ELSE [EnsureListener(G) EXCEPT !.resumed = @ \cup {runId}]

RECURSIVE ResumeAll(_, _)
ResumeAll(G, ids) ==
  IF ids = <<>> THEN G ELSE ResumeAll(ResumeSubagentRun(G, Head(ids)), Tail(ids))

\* restoreSubagentRunsOnce(): in-memory entries are kept over restored ones
RestoreSubagentRunsOnce(G) ==
  LET restored == LoadSubagentRegistryFromDisk(G)
  IN IF DOMAIN restored = {} THEN G
  ELSE LET merged == [r \in DOMAIN G.runs \cup DOMAIN restored |->
                        IF r \in DOMAIN G.runs THEN G.runs[r] ELSE restored[r]]
           G1 == ScheduleSweepIfNeeded(EnsureListener([G EXCEPT !.runs = merged]))
       IN ResumeAll(G1, InOrder(DOMAIN merged))

InitSubagentRegistry ==
  /\ restoreAttempted' = TRUE
  /\ ApplyRegistry(IF restoreAttempted THEN Registry ELSE RestoreSubagentRunsOnce(Registry))
  /\ UNCHANGED <<announced, usedRunIds, restarts, queueVars, coalesceVars, authVars, timerVars>>

\* the process is restarted: the module state is as after load, the file
\* stays; the announce flows in flight die, `delivered` of them after they
\* reached the parent
Restart(delivered) ==
  /\ restarts < MaxRestarts
  /\ delivered \subseteq {announceFlows[i].runId : i \in 1 .. Len(announceFlows)}
  /\ restarts' = restarts + 1
  /\ subagentRuns' = <<>>
  /\ completionWaiters' = <<>>
  /\ waitPromise' = [w \in WaiterIds |-> NoWaiter]
  /\ listenerStarted' = FALSE
  /\ restoreAttempted' = FALSE
  /\ resumedRuns' = {}
  /\ sweepTimer' = 0
  /\ sweeps' = <<>>
  /\ announceFlows' = <<>>
  /\ effects' = <<>>
  /\ announced' = [r \in RunIds |->
                     IF r \in delivered THEN Min(announced[r] + 1, 2) ELSE announced[r]]
  /\ UNCHANGED <<persisted, usedRunIds, queueVars, coalesceVars, authVars, timerVars>>

\* ------------------------------------------------------- auth preload cache
\* the cache state the functions work on
Auth ==
  [cache |-> authCache, order |-> cacheAccessOrder, refreshing |-> refreshInProgress,
   refreshes |-> refreshes]

ApplyAuth(A) ==
  /\ authCache' = A.cache
  /\ cacheAccessOrder' = A.order
  /\ refreshInProgress' = A.refreshing
  /\ refreshes' = A.refreshes

NoAuth == <<>>
\* a preloadAuth call: `hit` says that it returned from the cache, `started`
\* that its hit started a background refresh
NoAuthCall ==
  [state |-> "none", key |-> <<>>, old |-> FALSE, hit |-> FALSE, started |-> FALSE,
   value |-> NoAuth]

\* buildCacheKey(provider, profileId), for a normalized provider id
BuildCacheKey(provider, profileId) ==
  IF profileId = NoProfile THEN <<provider>> ELSE <<provider, profileId>>

\* what the resolver returns for a key: the credential, and whether the
\* key was invalidated while it was being resolved
Credential(key, old) == [key |-> key, old |-> old]

ResolutionError(key) == [error |-> key]

\* evictOldest()
RECURSIVE EvictOldest(_)
EvictOldest(A) ==
  IF Cardinality(DOMAIN A.cache) >= MaxCacheSize /\ Len(A.order) > 0
  THEN EvictOldest([A EXCEPT !.cache = Remove(@, Head(A.order)), !.order = Tail(@)])
  ELSE A

\* cacheAccessOrder.splice(cacheAccessOrder.indexOf(key), 1)
RECURSIVE SpliceFirst(_, _)
SpliceFirst(order, key) ==
  IF order = <<>> THEN <<>>
  ELSE IF Head(order) = key THEN Tail(order)
  ELSE <<Head(order)>> \o SpliceFirst(Tail(order), key)

TouchCacheEntry(A, key) == [A EXCEPT !.order = Append(SpliceFirst(@, key), key)]

SetCacheEntryBug(A, key, entry) ==
  TouchCacheEntry([A EXCEPT !.cache = (key :> entry) @@ @], key)

SetCacheEntry(A, key, entry) ==
  TouchCacheEntry([EvictOldest(A) EXCEPT !.cache = (key :> entry) @@ @], key)

\* the entry preloadAuth stores at clock reading `now`
NewCacheEntry(auth, now) ==
  [auth |-> auth, resolvedAt |-> now, expiresAt |-> now + AUTH_CACHE_TTL_MS]

\* scheduleBackgroundRefresh(provider, profileId): the async function it
\* starts runs preloadAuth({force: true}) up to its await of the resolver
ScheduleBackgroundRefresh(A, key) ==
  IF key \in A.refreshing THEN A
  ELSE [A EXCEPT !.refreshing = @ \cup {key},
                 !.refreshes = Append(@, [key |-> key, old |-> FALSE])]

\* now >= entry.expiresAt
ExpiredBug(entry, now) == now > entry.expiresAt

Expired(entry, now) == now >= entry.expiresAt

\* getCachedAuth(provider, profileId): <<returned value, state>>
GetCachedAuth(A, key, now) ==
  IF key \notin DOMAIN A.cache THEN <<NoAuth, A>>
  ELSE LET entry == A.cache[key]
           touched == TouchCacheEntry(A, key)
       IN IF Expired(entry, now)
          THEN <<NoAuth, [touched EXCEPT !.cache = Remove(@, key)]>>
          ELSE IF now >= entry.expiresAt - AUTH_CACHE_REFRESH_AHEAD_MS
          THEN <<entry.auth, ScheduleBackgroundRefresh(touched, key)>>
          ELSE <<entry.auth, touched>>

\* the calls still awaiting the resolver
PendingAuthCalls ==
  [c \in AuthCallIds |-> IF authCall[c].state = "resolving" THEN authCall[c] ELSE NoAuthCall]

UnusedAuthCalls == {c \in AuthCallIds : authCall[c].state # "resolving"}

\* preloadAuth(params) called from outside, up to its return or its await
PreloadAuth(c, provider, profileId, force) ==
  LET key == BuildCacheKey(provider, profileId)
      got == IF force THEN <<NoAuth, Auth>> ELSE GetCachedAuth(Auth, key, authClock)
      call == [NoAuthCall EXCEPT !.key = key]
  IN /\ UnusedAuthCalls # {}
     /\ c = NewPromiseId(UnusedAuthCalls)
     /\ Len(got[2].refreshes) <= MaxRefreshes
     /\ ApplyAuth(got[2])
     /\ authCall' = [PendingAuthCalls EXCEPT ![c] =
          IF got[1] # NoAuth
          THEN [call EXCEPT !.state = "returned", !.hit = TRUE, !.value = got[1],
                            !.started = Len(got[2].refreshes) > Len(refreshes)]
          ELSE [call EXCEPT !.state = "resolving"]]
     /\ invalidated' = IF force THEN invalidated ELSE invalidated \ {key}
     /\ UNCHANGED <<authClock, findCall, queueVars, coalesceVars, registryVars, timerVars>>

\* resolveApiKeyForProvider returns to call c: the rest of preloadAuth
ResolverReturns(c) ==
  LET call == authCall[c]
      auth == Credential(call.key, call.old)
  IN /\ call.state = "resolving"
     /\ ApplyAuth(SetCacheEntry(Auth, call.key, NewCacheEntry(auth, authClock)))
     /\ authCall' = [PendingAuthCalls EXCEPT ![c].state = "returned", ![c].value = auth]
     /\ UNCHANGED <<authClock, invalidated, findCall, queueVars, coalesceVars, registryVars, timerVars>>

\* resolveApiKeyForProvider throws: preloadAuth rejects
ResolverThrows(c) ==
  /\ authCall[c].state = "resolving"
  /\ authCall' = [PendingAuthCalls EXCEPT ![c].state = "threw",
                                         ![c].value = ResolutionError(authCall[c].key)]
  /\ UNCHANGED <<authCache, cacheAccessOrder, refreshInProgress, refreshes, authClock,
                 invalidated, findCall, queueVars, coalesceVars, registryVars, timerVars>>

DropRefresh(A, i) ==
  [A EXCEPT !.refreshes = SubSeq(@, 1, i - 1) \o SubSeq(@, i + 1, Len(@))]

\* the resolver returns to the i-th background refresh: preloadAuth stores
\* the entry, then the `finally` of the refresh releases the key
RefreshReturns(i) ==
  /\ i \in 1 .. Len(refreshes)
  /\ LET r == refreshes[i]
         stored == SetCacheEntry(DropRefresh(Auth, i), r.key,
                                 NewCacheEntry(Credential(r.key, r.old), authClock))
     IN ApplyAuth([stored EXCEPT !.refreshing = @ \ {r.key}])
  /\ UNCHANGED <<authClock, authCall, invalidated, findCall, queueVars, coalesceVars,
                 registryVars, timerVars>>

RefreshThrowsBug(i) ==
  /\ i \in 1 .. Len(refreshes)
  /\ ApplyAuth(DropRefresh(Auth, i))
  /\ UNCHANGED <<authClock, authCall, invalidated, findCall, queueVars, coalesceVars,
                 registryVars, timerVars>>

\* the resolver throws in the i-th background refresh: catch, then finally
RefreshThrows(i) ==
  /\ i \in 1 .. Len(refreshes)
  /\ ApplyAuth([DropRefresh(Auth, i) EXCEPT !.refreshing = @ \ {refreshes[i].key}])
  /\ UNCHANGED <<authClock, authCall, invalidated, findCall, queueVars, coalesceVars,
                 registryVars, timerVars>>

\* a resolution in flight for `key` began before this invalidation
MarkOld(call, key) ==
  IF call.state = "resolving" /\ call.key = key THEN [call EXCEPT !.old = TRUE] ELSE call

RECURSIVE MarkAllOld(_, _)
MarkAllOld(rs, key) ==
  IF rs = <<>> THEN <<>>
  ELSE <<IF Head(rs).key = key THEN [Head(rs) EXCEPT !.old = TRUE] ELSE Head(rs)>>
         \o MarkAllOld(Tail(rs), key)

InvalidateAuth(provider, profileId) ==
  LET key == BuildCacheKey(provider, profileId)
  IN /\ authCache' = Remove(authCache, key)
     /\ invalidated' = invalidated \cup {key}
     /\ authCall' = [c \in AuthCallIds |-> MarkOld(authCall[c], key)]
     /\ refreshes' = MarkAllOld(refreshes, key)
     /\ findCall' = MarkOld(findCall, key)
     /\ UNCHANGED <<cacheAccessOrder, refreshInProgress, authClock, queueVars, coalesceVars,
                    registryVars, timerVars>>

ClearAuthCache ==
  /\ authCache' = <<>>
  /\ cacheAccessOrder' = <<>>
  /\ refreshInProgress' = {}
  /\ UNCHANGED <<refreshes, authClock, authCall, invalidated, findCall, queueVars,
                 coalesceVars, registryVars, timerVars>>

\* `minutes` minutes pass
AuthTick(minutes) ==
  /\ authClock + minutes <= MaxAuthClock
  /\ authClock' = authClock + minutes
  /\ UNCHANGED <<authCache, cacheAccessOrder, refreshInProgress, refreshes, authCall,
                 invalidated, findCall, queueVars, coalesceVars, registryVars, timerVars>>

\* findAvailableAuth: no call made yet
NoFind ==
  [state |-> "none", provider |-> "", order |-> <<>>, remaining |-> <<>>, cooldown |-> {},
   default |-> FALSE, key |-> <<>>, old |-> FALSE, log |-> <<>>,
   value |-> NoAuth, lastError |-> NoAuth, calls |-> 0]

\* the loop of findAvailableAuth from the profiles `remaining`, up to its
\* return or its next await of the resolver: <<call, cache state>>
RECURSIVE FindLoop(_, _, _, _)
FindLoop(A, F, remaining, now) ==
  IF remaining # <<>> /\ Head(remaining) \in F.cooldown
  THEN FindLoop(A, [F EXCEPT !.log = Append(@, [profileId |-> Head(remaining),
                                                 what |-> "skipped"])],
                Tail(remaining), now)
  ELSE LET profileId == IF remaining = <<>> THEN NoProfile ELSE Head(remaining)
           rest == IF remaining = <<>> THEN <<>> ELSE Tail(remaining)
           key == BuildCacheKey(F.provider, profileId)
           got == GetCachedAuth(A, key, now)
       IN IF got[1] # NoAuth
          THEN <<[F EXCEPT !.state = "returned", !.value = got[1], !.remaining = rest,
                           !.default = (remaining = <<>>),
                           !.log = Append(@, [profileId |-> profileId, what |-> "cached"])],
                 got[2]>>
          ELSE <<[F EXCEPT !.state = "resolving", !.key = key,
                           !.old = FALSE, !.remaining = rest,
                           !.default = (remaining = <<>>),
                           !.log = Append(@, [profileId |-> profileId, what |-> "resolved"])],
                 got[2]>>

\* findAvailableAuth({provider, ...}): `order` is what resolveAuthProfileOrder
\* returns, `cooldown` the profiles isProfileInCooldown says yes for
FindAvailableAuth(provider, order, cooldown) ==
  LET F0 == [NoFind EXCEPT !.provider = provider, !.order = order, !.cooldown = cooldown,
                           !.calls = findCall.calls + 1]
      next == FindLoop(Auth, F0, order, authClock)
  IN /\ findCall.state \in {"none", "returned"}
     /\ findCall.calls < MaxFinds
     /\ Len(next[2].refreshes) <= MaxRefreshes
     /\ findCall' = next[1]
     /\ ApplyAuth(next[2])
     /\ invalidated' = invalidated \
          {BuildCacheKey(provider, next[1].log[i].profileId) : i \in
             {j \in 1 .. Len(next[1].log) : next[1].log[j].what # "skipped"}}
     /\ UNCHANGED <<authClock, authCall, queueVars, coalesceVars, registryVars, timerVars>>

\* the resolver returns to the preloadAuth call findAvailableAuth awaits
FindResolverReturns ==
  LET auth == Credential(findCall.key, findCall.old)
  IN /\ findCall.state = "resolving"
     /\ ApplyAuth(SetCacheEntry(Auth, findCall.key, NewCacheEntry(auth, authClock)))
     /\ findCall' = [findCall EXCEPT !.state = "returned", !.value = auth]
     /\ UNCHANGED <<authClock, authCall, invalidated, queueVars, coalesceVars, registryVars, timerVars>>

\* the resolver throws: the catch of the loop goes on with the next
\* profile, the catch of the default resolution returns null
FindResolverThrowsBug ==
  /\ findCall.state = "resolving"
  /\ findCall' = [findCall EXCEPT !.state = "returned", !.value = NoAuth,
                                  !.lastError = ResolutionError(findCall.key)]
  /\ UNCHANGED <<authCache, cacheAccessOrder, refreshInProgress, refreshes, authClock,
                 authCall, invalidated, queueVars, coalesceVars, registryVars, timerVars>>

FindResolverThrows ==
  LET F == [findCall EXCEPT !.lastError = ResolutionError(findCall.key)]
      next == IF F.default
              THEN <<[F EXCEPT !.state = "returned", !.value = NoAuth], Auth>>
              ELSE FindLoop(Auth, F, F.remaining, authClock)
  IN /\ findCall.state = "resolving"
     /\ Len(next[2].refreshes) <= MaxRefreshes
     /\ findCall' = next[1]
     /\ ApplyAuth(next[2])
     /\ invalidated' = invalidated \
          {BuildCacheKey(F.provider, next[1].log[i].profileId) : i \in
             {j \in (Len(F.log) + 1) .. Len(next[1].log) : next[1].log[j].what # "skipped"}}
     /\ UNCHANGED <<authClock, authCall, queueVars, coalesceVars, registryVars, timerVars>>

\* ---------------------------------------------------------- timer manager
NoCallback == <<>>
\* what a call returned: the function called, the id it was given or has
\* returned, the boolean or the count it returned
NoReturn == [of |-> "none", id |-> <<>>, ok |-> FALSE, count |-> 0]

\* generateId(label): `${label}-${nextId++}`
GenerateId(label) == <<label, nextId>>

\* the entry stored for a timer, and what its wrappedCallback closes over
\* (createdAt and delayMs play no part in the registry's bookkeeping)
TimerEntry(id, type, label) == [id |-> id, type |-> type, label |-> label]

\* managedSetTimeout(callback, delayMs, label)
ManagedSetTimeout(label) ==
  LET id == GenerateId(label)
  IN /\ nextId <= MaxTimers
     /\ nextId' = nextId + 1
     /\ timerHandles' = (id :> TimerEntry(id, "timeout", label)) @@ timerHandles
     /\ activeTimers' = (id :> TimerEntry(id, "timeout", label)) @@ activeTimers
     /\ totalCreated' = totalCreated + 1
     /\ timerReturn' = [NoReturn EXCEPT !.of = "managedSetTimeout", !.id = id]
     /\ UNCHANGED <<totalFired, totalCancelled, timerCallback, queueVars, coalesceVars,
                    registryVars, authVars>>

\* managedSetInterval(callback, intervalMs, label)
ManagedSetInterval(label) ==
  LET id == GenerateId(label)
  IN /\ nextId <= MaxTimers
     /\ nextId' = nextId + 1
     /\ timerHandles' = (id :> TimerEntry(id, "interval", label)) @@ timerHandles
     /\ activeTimers' = (id :> TimerEntry(id, "interval", label)) @@ activeTimers
     /\ totalCreated' = totalCreated + 1
     /\ timerReturn' = [NoReturn EXCEPT !.of = "managedSetInterval", !.id = id]
     /\ UNCHANGED <<totalFired, totalCancelled, timerCallback, queueVars, coalesceVars,
                    registryVars, authVars>>

TimerFiresBug(id) ==
  /\ timerCallback = NoCallback
  /\ id \in DOMAIN timerHandles
  /\ totalFired < MaxFired
  /\ timerHandles' = IF timerHandles[id].type = "timeout"
                      THEN Remove(timerHandles, id) ELSE timerHandles
  /\ totalFired' = totalFired + 1
  /\ timerCallback' = timerHandles[id]
  /\ UNCHANGED <<activeTimers, nextId, totalCreated, totalCancelled, timerReturn, queueVars,
                 coalesceVars, registryVars, authVars>>

\* the runtime calls the wrappedCallback of an armed timer, up to the call
\* of the user callback: a timeout is spent and deletes its entry, an
\* interval stays armed and registered; both count the firing
TimerFires(id) ==
  /\ timerCallback = NoCallback
  /\ id \in DOMAIN timerHandles
  /\ totalFired < MaxFired
  /\ timerHandles' = IF timerHandles[id].type = "timeout"
                      THEN Remove(timerHandles, id) ELSE timerHandles
  /\ activeTimers' = IF timerHandles[id].type = "timeout"
                      THEN Remove(activeTimers, id) ELSE activeTimers
  /\ totalFired' = totalFired + 1
  /\ timerCallback' = timerHandles[id]
  /\ UNCHANGED <<nextId, totalCreated, totalCancelled, timerReturn, queueVars, coalesceVars,
                 registryVars, authVars>>

\* the user callback returns or throws (the wrapper catches and logs)
CallbackEnds(outcome) ==
  /\ timerCallback # NoCallback
  /\ timerCallback' = NoCallback
  /\ UNCHANGED <<activeTimers, nextId, totalCreated, totalFired, totalCancelled, timerHandles,
                 timerReturn, queueVars, coalesceVars, registryVars, authVars>>

\* clearManagedTimer(id)
ClearManagedTimer(id) ==
  /\ IF id \notin DOMAIN activeTimers
     THEN /\ timerReturn' = [NoReturn EXCEPT !.of = "clearManagedTimer", !.id = id]
          /\ UNCHANGED <<activeTimers, totalCancelled, timerHandles>>
     ELSE /\ timerHandles' = Remove(timerHandles, id)
          /\ activeTimers' = Remove(activeTimers, id)
          /\ totalCancelled' = totalCancelled + 1
          /\ timerReturn' = [NoReturn EXCEPT !.of = "clearManagedTimer", !.id = id,
                                              !.ok = TRUE]
  /\ UNCHANGED <<nextId, totalCreated, totalFired, timerCallback, queueVars, coalesceVars,
                 registryVars, authVars>>

ClearAllTimersBug ==
  LET count == Cardinality(DOMAIN activeTimers)
  IN /\ activeTimers' = <<>>
     /\ totalCancelled' = totalCancelled + count
     /\ timerReturn' = [NoReturn EXCEPT !.of = "clearAllTimers", !.count = count]
     /\ UNCHANGED <<nextId, totalCreated, totalFired, timerHandles, timerCallback, queueVars,
                    coalesceVars, registryVars, authVars>>

\* clearAllTimers()
ClearAllTimers ==
  LET count == Cardinality(DOMAIN activeTimers)
  IN /\ timerHandles' = [id \in DOMAIN timerHandles \ DOMAIN activeTimers |-> timerHandles[id]]
     /\ activeTimers' = <<>>
     /\ totalCancelled' = totalCancelled + count
     /\ timerReturn' = [NoReturn EXCEPT !.of = "clearAllTimers", !.count = count]
     /\ UNCHANGED <<nextId, totalCreated, totalFired, timerCallback, queueVars, coalesceVars,
                    registryVars, authVars>>

\* regex.test(label) for a pattern without metacharacters: the pattern
\* occurs in the label
RegexTest(pattern, label) ==
  \E i \in 1 .. Len(label) :
    /\ i + Len(pattern) - 1 <= Len(label)
    /\ SubSeq(label, i, i + Len(pattern) - 1) = pattern

\* clearTimersByLabel(pattern)
ClearTimersByLabel(pattern) ==
  LET matching == {id \in DOMAIN activeTimers : RegexTest(pattern, activeTimers[id].label)}
      count == Cardinality(matching)
  IN /\ timerHandles' = [id \in DOMAIN timerHandles \ matching |-> timerHandles[id]]
     /\ activeTimers' = [id \in DOMAIN activeTimers \ matching |-> activeTimers[id]]
     /\ totalCancelled' = totalCancelled + count
     /\ timerReturn' = [NoReturn EXCEPT !.of = "clearTimersByLabel", !.count = count]
     /\ UNCHANGED <<nextId, totalCreated, totalFired, timerCallback, queueVars, coalesceVars,
                    registryVars, authVars>>

\* ------------------------------------------------------- specifications
Init ==
  /\ lanes = <<>>
  /\ nextTaskId = 1
  /\ sessionLanes = <<>>
  /\ sessionOrder = <<>>
  /\ maxConcurrentSessions = DefaultMaxConcurrentSessions
  /\ activeSessionCount = 0
  /\ promise = [t \in TaskIds |-> NoPromise]
  /\ running = {}
  /\ enqOrder = <<>>
  /\ drainWait = NoDrainWait
  /\ activeWindows = <<>>
  /\ windowTimers = <<>>
  /\ globalConfig = defaultConfig
  /\ callPromise = [c \in CallIds |-> NoCall]
  /\ subagentRuns = <<>>
  /\ persisted = <<>>
  /\ completionWaiters = <<>>
  /\ waitPromise = [w \in WaiterIds |-> NoWaiter]
  /\ listenerStarted = FALSE
  /\ restoreAttempted = FALSE
  /\ resumedRuns = {}
  /\ sweepTimer = 0
  /\ sweeps = <<>>
  /\ announceFlows = <<>>
  /\ announced = [r \in RunIds |-> 0]
  /\ usedRunIds = {}
  /\ restarts = 0
  /\ effects = <<>>
  /\ authCache = <<>>
  /\ cacheAccessOrder = <<>>
  /\ refreshInProgress = {}
  /\ authClock = 0
  /\ authCall = [c \in AuthCallIds |-> NoAuthCall]
  /\ refreshes = <<>>
  /\ invalidated = {}
  /\ findCall = NoFind
  /\ activeTimers = <<>>
  /\ nextId = 1
  /\ totalCreated = 0
  /\ totalFired = 0
  /\ totalCancelled = 0
  /\ timerHandles = <<>>
  /\ timerCallback = NoCallback
  /\ timerReturn = NoReturn

\* number of named-lane promises created / of session entries alive
LaneTasksCreated == Cardinality(LaneIds \ UnusedIds)

SessionTasksAlive == Cardinality(SessionIds \ FreeIds)

\* the operations on named lanes, for the given lane names and priorities,
\* creating at most `budget` tasks
LaneStep(names, priorities, budget) ==
  \/ /\ LaneTasksCreated < budget
     /\ \/ \E l \in names, t \in TaskIds, p \in priorities : EnqueueCommandInLane(l, t, p)
        \/ \E t \in TaskIds, p \in priorities : EnqueueCommand(t, p)
        \/ \E t \in TaskIds, p \in priorities : EnqueueSessionTask("", t, p)
  \/ \E r \in running, o \in Outcomes : SettleLaneTask(r, o)
  \/ \E l \in names, n \in CapInputs : SetCommandLaneConcurrency(l, n)
  \/ \E l \in names : ClearCommandLane(l)

\* the operations on session lanes, for the given session keys and
\* priorities, with at most `budget` entries alive
SessionStep(keys, priorities, budget) ==
  \/ /\ SessionTasksAlive < budget
     /\ \E k \in keys, t \in TaskIds, p \in priorities : EnqueueSessionTask(k, t, p)
  \/ \E r \in running, o \in Outcomes : SettleSessionTask(r, o)
  \/ \E n \in CapInputs : SetMaxConcurrentSessions(n)
  \/ \E k \in keys : ClearSessionLane(k)

\* one named lane under every priority
LaneNext == LaneStep({"main", " "}, LanePriorities, MaxLaneTasks)

\* two sessions under every priority
SessionNext == SessionStep({"a", "b"}, Priorities, MaxSessionTasks)

\* three sessions, every task of Normal priority
CapNext == SessionStep(RealSessionKeys, {Normal}, MaxSessionTasks)

LaneSpec == Init /\ [][LaneNext]_vars

SessionSpec == Init /\ [][SessionNext]_vars

CapSpec == Init /\ [][CapNext]_vars

\* every started session task eventually settles
SettleOfSession(k) ==
  \E r \in running, o \in Outcomes : r.key = k /\ SettleSessionTask(r, o)

\* two sessions, every task of Normal priority, every started task settles
PairNext == SessionStep({"a", "b"}, {Normal}, MaxSessionTasks)

FairPairSpec ==
  Init /\ [][PairNext]_vars /\ \A k \in {"a", "b"} : WF_vars(SettleOfSession(k))

\* one named lane and two sessions together, every task of Normal priority,
\* at most MaxMixedTasks tasks of either kind
QueueNext ==
  \/ LaneStep({"main"}, {Normal}, MaxMixedTasks)
  \/ SessionStep({"a", "b"}, {Normal}, MaxMixedTasks)

QueueSpec == Init /\ [][QueueNext]_vars

\* the main lane and two sessions, every task of Normal priority, with and
\* without an onWait callback that throws
WarnNext ==
  \/ /\ LaneTasksCreated < MaxMixedTasks
     /\ \E t \in TaskIds, onWait \in OnWaitInputs :
          EnqueueCommandInLaneWith("main", t, Normal, onWait)
  \/ \E r \in running, o \in Outcomes : SettleLaneTask(r, o)
  \/ /\ SessionTasksAlive < MaxMixedTasks
     /\ \E k \in {"a", "b"}, t \in TaskIds, onWait \in OnWaitInputs :
          EnqueueSessionTaskWith(k, t, Normal, onWait)
  \/ \E r \in running, o \in Outcomes : SettleSessionTask(r, o)
  \/ \E n \in CapInputs : SetMaxConcurrentSessions(n)

WarnSpec == Init /\ [][WarnNext]_vars

\* every started task eventually settles
SettleOfTask(t) ==
  \E r \in running, o \in Outcomes :
    r.entry.id = t /\ (SettleLaneTask(r, o) \/ SettleSessionTask(r, o))

FairQueueSpec == QueueSpec /\ \A t \in TaskIds : WF_vars(SettleOfTask(t))

\* waitForActiveTasks, its polls and its deadline
DrainStep ==
  \/ \E timeoutMs \in DrainTimeouts : WaitForActiveTasks(timeoutMs)
  \/ DeadlinePasses
  \/ PollTimer

\* two named lanes and a session, every task of Normal priority, with
\* waitForActiveTasks
DrainNext ==
  \/ LaneStep({"main", "cron"}, {Normal}, MaxMixedTasks)
  \/ SessionStep({"a"}, {Normal}, MaxMixedTasks)
  \/ DrainStep

DrainSpec == Init /\ [][DrainNext]_vars

\* the operations of the coalescer, for the given session keys,
\* configurations and message texts
CoalesceStep(keys, configs, texts) ==
  \/ \E config \in configs : ConfigureCoalescing(config)
  \/ \E k \in keys, text \in texts, c \in CallIds : CoalesceMessage(k, text, c)
  \/ \E timer \in CallIds : WindowTimer(timer)
  \/ \E k \in keys : FlushCoalesceWindow(k)
  \/ ClearAllWindows

\* two coalesced sessions under every maxMessages
WindowKeys == {<<"session-1">>, <<"session-2">>}

WindowConfigs == {config \in ConfigInputs : config.enabled /\ config.excludePatterns = {}}

WindowNext == CoalesceStep(WindowKeys, WindowConfigs, Texts)

WindowSpec == Init /\ [][WindowNext]_vars

\* every armed window timer fires unless it is cleared
FairWindowSpec == WindowSpec /\ \A timer \in CallIds : WF_vars(WindowTimer(timer))

\* one coalesced session and the keys that may skip, coalescing enabled or
\* not, with and without an exclude pattern, one message text
SkipKeys == CoalesceKeys \ {<<"session-2">>}

SkipConfigs == {config \in ConfigInputs : config.maxMessages = MaxBatch}

SkipNext == CoalesceStep(SkipKeys, SkipConfigs, {"a"})

SkipSpec == Init /\ [][SkipNext]_vars

\* the operations on run records, for the given events, cleanup policies,
\* archive settings and clock readings
RunStep(events, policies, archives, clocks) ==
  \/ \E r \in RunIds, k \in ParentKeys, c \in policies, a \in archives, now \in clocks :
       RegisterSubagentRun(r, k, c, a, now)
  \/ \E evt \in events, now \in clocks : EmitAgentEvent(evt, now)
  \/ \E i \in 1 .. MaxRuns, did \in BOOLEAN, now \in clocks : AnnounceDone(i, did, now)
  \/ \E r \in RunIds : ReleaseSubagentRun(r)

WaiterStep ==
  \/ \E w \in WaiterIds, r \in RunIds : WaitForSubagentRun(w, r)
  \/ \E w \in WaiterIds : WaiterTimeout(w)

SweepStep(clocks) ==
  \/ \E now \in clocks : SweepTimerFires(now)
  \/ \E i \in 1 .. MaxRuns : SweepResumes(i)

RestartStep ==
  \/ InitSubagentRegistry
  \/ \E delivered \in SUBSET RunIds : Restart(delivered)

\* every event: start, end (aborted or not), error, another stream, with
\* and without a timestamp of its own
LifecycleEvents ==
  {StartEvent(r, t) : r \in RunIds, t \in Times \cup {None}}
    \cup {EndEvent(r, t, a) : r \in RunIds, t \in Times \cup {None}, a \in BOOLEAN}
    \cup {ErrorEvent(r, t, "boom") : r \in RunIds, t \in Times \cup {None}}
    \cup {ToolEvent(r) : r \in RunIds}

\* ends (aborted or not) and errors, stamped on arrival
PlainEnds ==
  {EndEvent(r, None, a) : r \in RunIds, a \in BOOLEAN}
    \cup {ErrorEvent(r, None, "boom") : r \in RunIds}

\* ends that are not aborted, stamped on arrival
OkEnds == {EndEvent(r, None, FALSE) : r \in RunIds}

\* the run records under every event and every clock reading
RecordNext == RunStep(LifecycleEvents, CleanupPolicies, {FALSE}, Times)

RecordSpec == Init /\ [][RecordNext]_vars

\* waiters, with release, cleanup and archival of the records they wait on
WaitNext ==
  \/ RunStep(OkEnds, {"delete"}, {TRUE}, {1})
  \/ WaiterStep
  \/ SweepStep({1 + ArchiveAfter})

WaitSpec == Init /\ [][WaitNext]_vars

\* every waiter's timer fires unless it is cleared
FairWaitSpec == WaitSpec /\ \A w \in WaiterIds : WF_vars(WaiterTimeout(w))

\* an armed sweep timer fires unless it is cleared, and every session
\* deletion a sweep waits for returns or fails
FairSweepSpec ==
  /\ WaitSpec
  /\ WF_vars(SweepStep({1 + ArchiveAfter}))

\* waiters under every outcome of a run
NotifyNext ==
  \/ RunStep(PlainEnds, {"keep"}, {FALSE}, {1})
  \/ WaiterStep

NotifySpec == Init /\ [][NotifyNext]_vars

\* announce flows under duplicate events, init-time resume and restart
AnnounceNext ==
  \/ RunStep(PlainEnds, CleanupPolicies, {FALSE}, {1})
  \/ RestartStep

AnnounceSpec == Init /\ [][AnnounceNext]_vars

\* the operations of the auth cache, for the given profiles, force flags
\* and clock steps; `stale` are the profiles that get invalidated
CacheStep(profiles, forces, ticks, stale) ==
  \/ \E c \in AuthCallIds, provider \in Providers, profileId \in profiles, force \in forces :
       PreloadAuth(c, provider, profileId, force)
  \/ \E c \in AuthCallIds : ResolverReturns(c)
  \/ \E c \in AuthCallIds : ResolverThrows(c)
  \/ \E i \in 1 .. MaxRefreshes : RefreshReturns(i)
  \/ \E i \in 1 .. MaxRefreshes : RefreshThrows(i)
  \/ \E provider \in Providers, profileId \in stale : InvalidateAuth(provider, profileId)
  \/ ClearAuthCache
  \/ \E minutes \in ticks : AuthTick(minutes)

\* one cache key, minute by minute
KeyNext == CacheStep({NoProfile}, BOOLEAN, {1}, {NoProfile})

KeySpec == Init /\ [][KeyNext]_vars

\* three cache keys, one more than the cache holds
CacheProfiles == {NoProfile, "P1", "P2"}

\* the clock goes from a store to the refresh window, and from there past
\* the expiry
CacheTicks == {AUTH_CACHE_TTL_MS - AUTH_CACHE_REFRESH_AHEAD_MS}

CacheNext == CacheStep(CacheProfiles, {FALSE}, CacheTicks, {"P1"})

CacheSpec == Init /\ [][CacheNext]_vars

\* the profile orders handed to findAvailableAuth
FindOrders == {<<"P1", "P2", "P3">>, <<"P2", "P1">>, <<>>}

FindNext ==
  \/ \E provider \in Providers, order \in FindOrders, cooldown \in SUBSET Profiles :
       FindAvailableAuth(provider, order, cooldown)
  \/ FindResolverReturns
  \/ FindResolverThrows
  \/ \E i \in 1 .. MaxRefreshes : RefreshReturns(i)
  \/ \E i \in 1 .. MaxRefreshes : RefreshThrows(i)
  \/ \E minutes \in CacheTicks : AuthTick(minutes)

FindSpec == Init /\ [][FindNext]_vars

\* the timer manager: its calls, from outside or from a running callback,
\* and the firings
TimerNext ==
  \/ \E label \in TimerLabels : ManagedSetTimeout(label)
  \/ \E label \in TimerLabels : ManagedSetInterval(label)
  \/ \E id \in TimerIds : TimerFires(id)
  \/ \E outcome \in Outcomes : CallbackEnds(outcome)
  \/ \E id \in TimerIds : ClearManagedTimer(id)
  \/ ClearAllTimers
  \/ \E pattern \in LabelPatterns : ClearTimersByLabel(pattern)

TimerSpec == Init /\ [][TimerNext]_vars

\* ------------------------------------------------------------ vocabulary
\* the session tasks / named-lane tasks really executing
Executing(kind, key) == {r \in running : r.kind = kind /\ r.key = key}

\* number of session lanes with an executing task
ActiveSessions ==
  Cardinality({k \in DOMAIN sessionLanes : Executing("session", k) # {}})

\* the entries waiting in a session lane / in a named lane
QueuedInSession(sl, k) == {sl[k].queue[i] : i \in 1 .. Len(sl[k].queue)}

QueuedInLane(ls, l) ==
  UNION {{ls[l].buckets[b][i] : i \in 1 .. Len(ls[l].buckets[b])} :
         b \in 1 .. Len(ls[l].buckets)}

\* position of an entry in the enqueue order
Pos(order, id) == CHOOSE i \in 1 .. Len(order) : order[i] = id

EnqueuedBefore(order, t, u) == Pos(order, t.id) < Pos(order, u.id)

\* a session lane that is idle with work queued
Waiting(k) ==
  /\ k \in DOMAIN sessionLanes
  /\ ~sessionLanes[k].active
  /\ Len(sessionLanes[k].queue) > 0

\* ---------------------------------------------------------------- claims

\* C1: at most one task of a session key executes at any time, whatever the
\* priorities of its tasks and whatever the other sessions do.
C1_SessionSerial ==
  \A k \in DOMAIN sessionLanes : Cardinality(Executing("session", k)) <= 1

\* a session runs a task while it has more queued and another session runs too
C1_Witness ==
  /\ "a" \in DOMAIN sessionLanes /\ "b" \in DOMAIN sessionLanes
  /\ Cardinality(Executing("session", "a")) = 1
  /\ Cardinality(Executing("session", "b")) = 1
  /\ Len(sessionLanes["a"].queue) = 1
  /\ sessionLanes["a"].queue[1].priority = Urgent
  /\ activeSessionCount < maxConcurrentSessions

\* C2 as claimed: the number of session lanes with an executing task is at
\* most maxConcurrentSessions in every reachable state, also after the cap
\* has been lowered while tasks run.
C2_Original == ActiveSessions <= maxConcurrentSessions

\* C2 as amended: a step never takes the number of executing session lanes
\* above maxConcurrentSessions by starting a task; the number is above the cap
\* only after setMaxConcurrentSessions lowered the cap below it, and from
\* then on it does not grow until it is back within the cap.
C2_NoStartAboveCap ==
  [][\/ ActiveSessions' <= maxConcurrentSessions'
     \/ /\ ActiveSessions' <= ActiveSessions
        /\ \/ ActiveSessions > maxConcurrentSessions
           \/ maxConcurrentSessions' < maxConcurrentSessions]_vars

\* the cap was lowered below the number of running sessions and a third
\* session is held back
C2_Witness ==
  /\ ActiveSessions = 2
  /\ maxConcurrentSessions = 1
  /\ \E k \in RealSessionKeys : Waiting(k)

\* C3 as claimed: in every reachable state every named lane executes at most
\* maxConcurrent tasks, also after maxConcurrent has been lowered while
\* tasks run.
C3_Original ==
  \A l \in DOMAIN lanes : Cardinality(Executing("lane", l)) <= lanes[l].maxConcurrent

\* C3 as amended: a step never takes the number of tasks executing in a named
\* lane above the lane's maxConcurrent by starting a task; the number is above
\* maxConcurrent only after setCommandLaneConcurrency lowered it below that
\* number, and from then on it does not grow until it is back within it.
C3_NoStartAboveMax ==
  [][\A l \in DOMAIN lanes' :
       LET now == Cardinality({r \in running : r.kind = "lane" /\ r.key = l})
           next == Cardinality({r \in running' : r.kind = "lane" /\ r.key = l})
       IN \/ next <= lanes'[l].maxConcurrent
          \/ /\ l \in DOMAIN lanes
             /\ next <= now
             /\ \/ now > lanes[l].maxConcurrent
                \/ lanes'[l].maxConcurrent < lanes[l].maxConcurrent]_vars

\* maxConcurrent was lowered below the number of running tasks and an entry
\* is held back
C3_Witness ==
  /\ Main \in DOMAIN lanes
  /\ Cardinality(Executing("lane", Main)) = 2
  /\ lanes[Main].maxConcurrent = 1
  /\ GetTotalQueued(lanes[Main]) > 0

\* the task runners a step starts / the ones that leave
Started(kind, key) == {r \in running' \ running : r.kind = kind /\ r.key = key}

Left == running \ running'

\* a running task leaves only by settling its caller's promise, one per step
NoPreemption ==
  /\ Cardinality(Left) <= 1
  /\ \A r \in Left : promise'[r.entry.id].state \in {"resolved", "rejected"}

\* the priority bucket of a named-lane entry: Urgent, Normal or Background
ClaimBucket(e) ==
  IF e.priority <= Urgent THEN Urgent
  ELSE IF e.priority >= Background THEN Background ELSE e.priority

\* t goes before u in a named lane: higher-priority bucket, or the same
\* bucket and enqueued earlier
LaneBefore(order, t, u) ==
  \/ ClaimBucket(t) < ClaimBucket(u)
  \/ ClaimBucket(t) = ClaimBucket(u) /\ EnqueuedBefore(order, t, u)

\* C4: in a named lane every entry a step starts goes before every entry the
\* step leaves waiting (higher-priority bucket first, enqueue order within a
\* bucket), entries started by one pump get their task ids in that order, the
\* pump leaves no entry waiting while a slot is free, and a running task is
\* never preempted.  With concurrency 1, A running and B (Background),
\* C (Urgent), D (Normal) waiting, the steps therefore complete A, C, D, B.
C4_LanePriorityOrder ==
  [][/\ NoPreemption
     /\ \A l \in DOMAIN lanes' :
          /\ \A t \in Started("lane", l) :
               /\ \A u \in QueuedInLane(lanes', l) : LaneBefore(enqOrder', t.entry, u)
               /\ \A t2 \in Started("lane", l) :
                    t.taskId < t2.taskId => LaneBefore(enqOrder', t.entry, t2.entry)
          /\ GetTotalQueued(lanes'[l]) > 0 =>
               Cardinality({r \in running' : r.kind = "lane" /\ r.key = l})
                 >= lanes'[l].maxConcurrent]_vars

\* the scenario after A and C completed: D (Normal) runs, B (Background),
\* enqueued before C and D, still waits
C4_Witness ==
  /\ Main \in DOMAIN lanes
  /\ lanes[Main].maxConcurrent = 1
  /\ \E a, b, c, d \in LaneIds :
       /\ a < b /\ b < c /\ c < d
       /\ promise[a].state = "resolved"
       /\ promise[c].state = "resolved"
       /\ Executing("lane", Main) =
            {[kind |-> "lane", key |-> Main, taskId |-> 3,
              entry |-> [id |-> d, priority |-> Normal, sessionKey |-> "", onWait |-> NoOnWait]]}
       /\ lanes[Main].buckets =
            <<<<>>, <<>>, <<[id |-> b, priority |-> Background, sessionKey |-> "", onWait |-> NoOnWait]>>>>

\* a session queue is sorted by priority number, ties in enqueue order
SessionQueueSorted(sl, order, k) ==
  \A i, j \in 1 .. Len(sl[k].queue) :
    i < j =>
      \/ sl[k].queue[i].priority < sl[k].queue[j].priority
      \/ /\ sl[k].queue[i].priority = sl[k].queue[j].priority
         /\ EnqueuedBefore(order, sl[k].queue[i], sl[k].queue[j])

\* C5: every session queue is sorted by non-decreasing priority number with
\* ties in enqueue order, the task a step starts is the one that goes before
\* everything left waiting in its session, and a running task is not preempted.
C5_SessionPriorityOrder ==
  [][/\ NoPreemption
     /\ \A k \in DOMAIN sessionLanes' :
          /\ SessionQueueSorted(sessionLanes', enqOrder', k)
          /\ \A t \in Started("session", k), u \in QueuedInSession(sessionLanes', k) :
               \/ t.entry.priority < u.priority
               \/ /\ t.entry.priority = u.priority
                  /\ EnqueuedBefore(enqOrder', t.entry, u)]_vars

\* a Normal task runs; Urgent, enqueued after Background, waits in front of it
C5_Witness ==
  /\ "a" \in DOMAIN sessionLanes
  /\ \E r \in Executing("session", "a") : r.entry.priority = Normal
  /\ Len(sessionLanes["a"].queue) = 2
  /\ sessionLanes["a"].queue[1].priority = Urgent
  /\ sessionLanes["a"].queue[2].priority = Background
  /\ EnqueuedBefore(enqOrder, sessionLanes["a"].queue[2], sessionLanes["a"].queue[1])

\* C6: a session lane that is idle with work queued is eventually activated
\* (or its queue is cleared), given that every started task settles.
C6_NoStarvation == \A k \in RealSessionKeys : Waiting(k) ~> ~Waiting(k)

\* a task started in this step overtakes u: u waits in another session and
\* was enqueued earlier
Overtaken(t, u) ==
  /\ u.sessionKey # t.key
  /\ u \in QueuedInSession(sessionLanes', u.sessionKey)
  /\ EnqueuedBefore(enqOrder', u, t.entry)

WaitingEntries(sl) == UNION {QueuedInSession(sl, k) : k \in DOMAIN sl}

\* C7 as claimed: with maxConcurrentSessions = 1 no session task starts before
\* a task of another session that was enqueued earlier and still waits.
C7_Original ==
  [][(maxConcurrentSessions = 1 /\ maxConcurrentSessions' = 1) =>
       \A t \in running' \ running, u \in WaitingEntries(sessionLanes') :
         ~Overtaken(t, u)]_vars

\* C7 as amended: with maxConcurrentSessions = 1 a session task starts before
\* an earlier-enqueued waiting task of another session only when its session
\* is the one whose task has just settled, or was created before the other
\* session's lane.
C7_EnqueueOrderUpToLaneOrder ==
  [][(maxConcurrentSessions = 1 /\ maxConcurrentSessions' = 1) =>
       \A t \in running' \ running, u \in WaitingEntries(sessionLanes') :
         Overtaken(t, u) =>
           \/ \E r \in Left : r.key = t.key
           \/ Pos(sessionOrder', t.key) < Pos(sessionOrder', u.sessionKey)]_vars

\* under cap 1 a task runs that was enqueued after the waiting head of an
\* older session lane
C7_Witness ==
  /\ maxConcurrentSessions = 1
  /\ \E r \in running, k \in DOMAIN sessionLanes :
       /\ Waiting(k)
       /\ k # r.key
       /\ Pos(sessionOrder, k) < Pos(sessionOrder, r.key)
       /\ EnqueuedBefore(enqOrder, sessionLanes[k].queue[1], r.entry)

\* C8: between two handlers no session lane is idle with work queued while
\* fewer than maxConcurrentSessions sessions run.
C8_WorkConserving ==
  \A k \in DOMAIN sessionLanes :
    (Executing("session", k) = {} /\ Len(sessionLanes[k].queue) > 0) =>
      /\ ActiveSessions >= maxConcurrentSessions
      /\ activeSessionCount >= maxConcurrentSessions

\* cap 2, three sessions: two run, the third waits
C8_Witness ==
  /\ maxConcurrentSessions = 2
  /\ ActiveSessions = 2
  /\ Cardinality({k \in DOMAIN sessionLanes : Waiting(k)}) = 1

\* the task of this runner threw: the error it threw is what its caller got
Threw(r) == promise'[r.entry.id].value = TaskValue(r.entry, "err")

\* C9: when a task rejects, its caller's promise is rejected with the task's
\* error, the slot is released exactly once (the counter drops by one and
\* counts the tasks really executing, those the same step starts included),
\* and the pump has gone on: no entry of the lane, and no idle session, is
\* left waiting while a slot is free.
C9_FailureReleasesSlot ==
  [][\A r \in Left :
       Threw(r) =>
         /\ promise'[r.entry.id].state = "rejected"
         /\ r.kind = "lane" =>
              /\ lanes'[r.key].active =
                   lanes[r.key].active - 1 + Cardinality(Started("lane", r.key))
              /\ lanes'[r.key].active =
                   Cardinality({x \in running' : x.kind = "lane" /\ x.key = r.key})
              /\ GetTotalQueued(lanes'[r.key]) > 0 =>
                   lanes'[r.key].active >= lanes'[r.key].maxConcurrent
         /\ r.kind = "session" =>
              /\ activeSessionCount' =
                   activeSessionCount - 1
                     + Cardinality({x \in running' \ running : x.kind = "session"})
              /\ activeSessionCount' = ActiveSessions'
              /\ ~sessionLanes'[r.key].active =>
                   Executing("session", r.key)' = {}
              /\ \A k \in DOMAIN sessionLanes' :
                   Waiting(k)' => activeSessionCount' >= maxConcurrentSessions']_vars

\* a named-lane task and a session task were rejected, and the entries queued
\* behind them are running
C9_Witness ==
  /\ \E t \in LaneIds : promise[t].state = "rejected"
  /\ \E t \in SessionIds : promise[t].state = "rejected"
  /\ Executing("lane", Main) # {}
  /\ Executing("session", "b") # {}
  /\ maxConcurrentSessions = 1

\* C10: every promise returned by enqueueCommandInLane or enqueueSessionTask
\* is eventually settled, given that every started task settles.
C10_EverySettled ==
  \A t \in TaskIds : (promise[t].state = "pending") ~> (promise[t].state # "pending")

\* ------------------------------------------------- coalescer vocabulary
\* the calls of coalesceMessage made in this step
NewCalls == {c \in CallIds : callPromise[c].state = "none" /\ callPromise'[c].state # "none"}

\* the callers whose message is in the list
CallersOf(list) == {list[i].call : i \in 1 .. Len(list)}

\* the windows this step closes
ClosedWindows == DOMAIN activeWindows \ DOMAIN activeWindows'

\* this step is a coalesceMessage call for session key k
CalledFor(k) == \E c \in NewCalls : callPromise'[c].sessionKey = k

\* messages are in the order of the calls that brought them
ArrivalOrder(list) ==
  \A i, j \in 1 .. Len(list) : i < j => list[i].call < list[j].call

\* C11: when a window closes, there is one accumulated list, made of the
\* window's messages and the message of the call that closes it, and every
\* caller whose message is in that list, the closing caller included, has
\* its promise resolved with exactly that list.
C11_AllCallersResolveTogether ==
  [][\A k \in ClosedWindows :
       \E c0 \in CallIds :
         LET list == callPromise'[c0].value
             old == activeWindows[k].messages
         IN /\ Len(list) >= Len(old)
            /\ SubSeq(list, 1, Len(old)) = old
            /\ \A c \in NewCalls : callPromise'[c].sessionKey = k => c \in CallersOf(list)
            /\ \A c \in CallersOf(list) :
                 /\ callPromise'[c].state = "resolved"
                 /\ callPromise'[c].value = list]_vars

\* C12: every window holds only messages submitted for its own session key,
\* no call is in two windows, and a coalesceMessage call for one session key
\* leaves the window of every other session key as it was: it adds nothing
\* to it and does not close it.
C12_WindowsIndependent ==
  [][/\ \A k \in DOMAIN activeWindows' :
          \A c \in CallersOf(activeWindows'[k].messages) :
            /\ callPromise'[c].sessionKey = k
            /\ \A k2 \in DOMAIN activeWindows' \ {k} :
                 c \notin CallersOf(activeWindows'[k2].messages)
     /\ \A k \in WindowKeys :
          CalledFor(k) =>
            \A k2 \in DOMAIN activeWindows \ {k} :
              /\ k2 \in DOMAIN activeWindows'
              /\ activeWindows'[k2] = activeWindows[k2]
              /\ \A c \in CallersOf(activeWindows[k2].messages) :
                   callPromise'[c] = callPromise[c]]_vars

\* both sessions have a window, after an earlier window of session-1 was
\* closed by its second message
C12_Witness ==
  /\ DOMAIN activeWindows = WindowKeys
  /\ \E c \in CallIds :
       /\ callPromise[c].state = "resolved"
       /\ callPromise[c].sessionKey = <<"session-1">>
       /\ Len(callPromise[c].value) = 2
       /\ Len(callPromise[c].value) = globalConfig.maxMessages

\* C13: after a coalesceMessage call for a session key returns, the window
\* of that key does not hold maxMessages messages: the message that brings
\* the count to maxMessages closes the window in the same call.
C13_NthMessageCloses ==
  [][\A k \in WindowKeys :
       (CalledFor(k) /\ HasActiveWindow(k)') =>
         GetPendingCount(k)' # globalConfig.maxMessages]_vars

\* C14: a window is eventually closed (its timer is armed from the moment it
\* is created), and whenever a window closes without a call adding to it
\* (timer, flush, clear), the callers of its messages resolve with the list
\* of those messages, which is in arrival order.
C14_TimerClosesInArrivalOrder ==
  /\ \A k \in WindowKeys : HasActiveWindow(k) ~> ~HasActiveWindow(k)
  /\ [][\A k \in ClosedWindows :
          ~CalledFor(k) =>
            LET list == activeWindows[k].messages
            IN /\ ArrivalOrder(list)
               /\ \A c \in CallersOf(list) :
                    /\ callPromise[c].state = "pending"
                    /\ callPromise'[c].state = "resolved"
                    /\ callPromise'[c].value = list]_vars

\* three messages sent in a row under the default maxMessages resolved
\* together, in the order sent
C14_Witness ==
  /\ globalConfig.maxMessages = MAX_MESSAGES_PER_BATCH
  /\ \E list \in {callPromise[c].value : c \in CallIds} :
       /\ Len(list) = 3
       /\ <<list[1].text, list[2].text, list[3].text>> = <<"a", "b", "a">>
       /\ list[1].call < list[2].call /\ list[2].call < list[3].call
       /\ \A c \in CallersOf(list) : callPromise[c].value = list
  /\ activeWindows = <<>>

\* the session keys that contain "subagent:" / that the pattern matches
SubagentKeys == {<<"agent", "main", Subagent, "run-123">>}

ExcludedKeys(patterns) == IF "cron" \in patterns THEN {<<"cron", "job">>} ELSE {}

\* C15: a coalesceMessage call made while coalescing is disabled, or for a
\* session key that contains "subagent:" or matches an exclude pattern,
\* returns a promise already resolved with the list of its one message and
\* changes no window and no other promise.
C15_SkipIsImmediate ==
  [][\A c \in NewCalls :
       LET k == callPromise'[c].sessionKey
       IN (\/ ~globalConfig.enabled
           \/ k \in SubagentKeys
           \/ k \in ExcludedKeys(globalConfig.excludePatterns)) =>
            /\ callPromise'[c].state = "resolved"
            /\ Len(callPromise'[c].value) = 1
            /\ callPromise'[c].value[1].call = c
            /\ activeWindows' = activeWindows
            /\ \A c2 \in CallIds \ {c} : callPromise'[c2] = callPromise[c2]]_vars

\* a subagent key and an excluded key were answered at once while
\* coalescing is enabled and session-1 has a window open that is untouched
C15_Witness ==
  /\ globalConfig.enabled
  /\ \E c \in CallIds :
       callPromise[c].sessionKey \in SubagentKeys /\ callPromise[c].state = "resolved"
  /\ \E c \in CallIds :
       callPromise[c].sessionKey = <<"cron", "job">> /\ callPromise[c].state = "resolved"
  /\ DOMAIN activeWindows = {<<"session-1">>}
  /\ GetPendingCount(<<"session-1">>) = 2

\* ------------------------------------------- vocabulary of the registry claims
\* the runs that have a record before and after a step
KeptRuns == DOMAIN subagentRuns \cap DOMAIN subagentRuns'

Ended(entry) == entry.endedAt # None

\* C16: once a run has ended, no step changes its endedAt or its outcome:
\* further end or error events for the same runId leave both as they are.
C16_EndedAtAssignedOnce ==
  [][\A r \in KeptRuns :
       Ended(subagentRuns[r]) =>
         /\ subagentRuns'[r].endedAt = subagentRuns[r].endedAt
         /\ subagentRuns'[r].outcome = subagentRuns[r].outcome]_vars

\* the waiters in the waiter set of some run
SetWaiters ==
  UNION {Range(completionWaiters[r]) : r \in DOMAIN completionWaiters}

SetWaitersAfter ==
  UNION {Range(completionWaiters'[r]) : r \in DOMAIN completionWaiters'}

\* C17: every waitForSubagentRun promise resolves exactly once.  A pending
\* promise is resolved in the end; a resolved one never changes; a call for
\* an ended run returns a promise resolved with the record, a call for an
\* unknown runId one resolved with null, any other call a pending promise
\* whose callback is in the waiter set; a pending promise is resolved with
\* the ended record of its run or, by its timer, with null, and then the
\* waiter is out of the waiter set and the record, if it is still there,
\* has endedAt unset.
C17_WaitersAlwaysWake ==
  /\ \A w \in WaiterIds :
       (waitPromise[w].state = "pending") ~> (waitPromise[w].state = "resolved")
  /\ [][\A w \in WaiterIds :
          LET before == waitPromise[w]
              after == waitPromise'[w]
              r == after.runId
          IN /\ before.state = "resolved" => after = before
             /\ before.state = "none" /\ after.state # "none" =>
                  IF r \in DOMAIN subagentRuns /\ Ended(subagentRuns[r])
                  THEN after.state = "resolved" /\ after.value = Record(subagentRuns[r])
                  ELSE IF r \notin DOMAIN subagentRuns
                  THEN after.state = "resolved" /\ after.value = Null
                  ELSE after.state = "pending" /\ w \in Range(completionWaiters'[r])
             /\ before.state = "pending" =>
                  /\ after.state \in {"pending", "resolved"}
                  /\ after.runId = before.runId
                  /\ after.state = "pending" => w \in SetWaitersAfter
             /\ before.state = "pending" /\ after.state = "resolved" =>
                  /\ w \notin SetWaitersAfter
                  /\ IF after.value = Null
                     THEN r \in DOMAIN subagentRuns' => ~Ended(subagentRuns'[r])
                     ELSE /\ r \in KeptRuns
                          /\ ~Ended(subagentRuns[r])
                          /\ Ended(subagentRuns'[r])
                          /\ after.value[1].runId = r
                          /\ after.value[1].endedAt = subagentRuns'[r].endedAt
                          /\ after.value[1].outcome = subagentRuns'[r].outcome]_vars

\* one waiter got the record of its run, another one timed out on a run
\* whose record is still there and has not ended
C17_Witness ==
  \E w1, w2 \in WaiterIds :
    /\ waitPromise[w1].state = "resolved"
    /\ waitPromise[w1].value # Null
    /\ waitPromise[w2].state = "resolved"
    /\ waitPromise[w2].value = Null
    /\ waitPromise[w2].runId \in DOMAIN subagentRuns
    /\ ~Ended(subagentRuns[waitPromise[w2].runId])
    /\ SetWaiters = {}

\* the waiters registered on run r, in registration order
WaitersOn(r) == IF r \in DOMAIN completionWaiters THEN completionWaiters[r] ELSE <<>>

\* the outcome the specification gives a run for the event that ends it
OutcomeFor(evt) ==
  IF evt.phase = "error" THEN [status |-> "error", error |-> evt.error]
  ELSE IF evt.aborted THEN [status |-> "timeout", error |-> ""]
  ELSE [status |-> "ok", error |-> ""]

\* C18: when an end or error event of a registered run is handled, the
\* handler first calls the run's waiters in registration order, each with
\* one and the same record, which carries the outcome of the event (error
\* with its message for phase error, timeout for an aborted end, ok
\* otherwise), then emits subagent_complete with the parent's session key,
\* and starts the announce flow, if it starts one, only after both.
C18_NotifyThenEmitThenAnnounce ==
  [][\A evt \in PlainEnds :
       (/\ listenerStarted
        /\ evt.runId \in DOMAIN subagentRuns
        /\ EmitAgentEvent(evt, 1)) =>
         LET r == evt.runId
             ws == WaitersOn(r)
             n == Len(ws)
             entry == effects'[n + 1].record
         IN /\ Len(effects') \in {n + 1, n + 2}
            /\ \A i \in 1 .. n :
                 /\ effects'[i].kind = "notify"
                 /\ effects'[i].who = ws[i]
                 /\ effects'[i].record = entry
                 /\ waitPromise'[ws[i]].state = "resolved"
                 /\ waitPromise'[ws[i]].value = Record(entry)
            /\ effects'[n + 1].kind = "subagent_complete"
            /\ effects'[n + 1].who = subagentRuns[r].requesterSessionKey
            /\ entry.runId = r
            /\ entry.outcome = OutcomeFor(evt)
            /\ Ended(entry)
            /\ Len(effects') = n + 2 <=>
                 ~subagentRuns[r].cleanupHandled /\ subagentRuns[r].cleanupCompletedAt = None
            /\ Len(effects') = n + 2 =>
                 /\ effects'[n + 2].kind = "announce"
                 /\ effects'[n + 2].record.runId = r
                 /\ announceFlows' = Append(announceFlows, [runId |-> r,
                                                            cleanup |-> subagentRuns[r].cleanup])]_vars

\* an error event has just ended a run with two waiters: both were called,
\* in registration order, then the completion event, then the announce flow
C18_Witness ==
  /\ Len(effects) = 4
  /\ effects[1].kind = "notify" /\ effects[1].who = 1
  /\ effects[2].kind = "notify" /\ effects[2].who = 2
  /\ effects[3].kind = "subagent_complete"
  /\ effects[3].who = "agent:main:main"
  /\ effects[3].record.outcome = [status |-> "error", error |-> "boom"]
  /\ effects[4].kind = "announce"
  /\ waitPromise[1].value = waitPromise[2].value
  /\ waitPromise[1].state = "resolved"

\* the announce flows in flight for run r
FlowsOf(r) == {i \in 1 .. Len(announceFlows) : announceFlows[i].runId = r}

\* C19: each ended run is announced exactly once: no two announce flows of
\* one run are in flight together, no run is delivered to its parent twice,
\* and no announce is lost: an ended record that is marked cleanupHandled,
\* has no cleanupCompletedAt and was not delivered yet has a flow in flight.
C19_AnnouncedExactlyOnce ==
  \A r \in RunIds :
    /\ Cardinality(FlowsOf(r)) <= 1
    /\ announced[r] <= 1
    /\ (/\ r \in DOMAIN subagentRuns
        /\ Ended(subagentRuns[r])
        /\ subagentRuns[r].cleanupHandled
        /\ subagentRuns[r].cleanupCompletedAt = None
        /\ announced[r] = 0) => FlowsOf(r) # {}

\* the phase of a record: created 0, started 1, ended 2, cleanup-handled 3,
\* archived (cleanup completed) 4
Phase(entry) ==
  IF entry.cleanupCompletedAt # None THEN 4
  ELSE IF entry.cleanupHandled THEN 3
  ELSE IF Ended(entry) THEN 2
  ELSE IF entry.startedAt # None THEN 1
  ELSE 0

\* C20: the phase of a record only moves forward: no step takes a record to
\* an earlier phase, no step changes startedAt of a record that has ended,
\* and a record in cleanup or archived has ended.
C20_PhaseMonotonic ==
  [][\A r \in KeptRuns :
       /\ Phase(subagentRuns'[r]) >= Phase(subagentRuns[r])
       /\ Ended(subagentRuns[r]) => subagentRuns'[r].startedAt = subagentRuns[r].startedAt
       /\ Phase(subagentRuns'[r]) >= 3 => Ended(subagentRuns'[r])]_vars

\* the records a step removes
RemovedRuns == DOMAIN subagentRuns \ DOMAIN subagentRuns'

\* the clock readings the sweep timer fires at
SweepTimes == 1 .. (MaxTime + ArchiveAfter)

\* C21: the sweep removes only records of runs that have ended, and only
\* once the grace period counted from endedAt has elapsed: a record whose
\* endedAt is unset is never removed by the sweep.
C21_ArchivedAfterCompletion ==
  [][/\ \A now \in SweepTimes :
          SweepTimerFires(now) =>
            \A r \in RemovedRuns :
              /\ Ended(subagentRuns[r])
              /\ subagentRuns[r].endedAt + ArchiveAfter <= now
     /\ \A i \in 1 .. MaxRuns :
          SweepResumes(i) => \A r \in RemovedRuns : Ended(subagentRuns[r])]_vars

\* C22: between handlers, the sweep's awaits included, every runId in the
\* registry file has a record in the in-memory map: the file never holds a
\* run that was archived.
C22_FileWithinMemory == DOMAIN persisted \subseteq DOMAIN subagentRuns

\* ------------------------------------------------------------ auth cache
\* the keys whose entry was stored by this step
StoredKeys ==
  {k \in DOMAIN authCache' : k \notin DOMAIN authCache \/ authCache'[k] # authCache[k]}

\* the keys this step removed from the cache
EvictedKeys == DOMAIN authCache \ DOMAIN authCache'

\* position of the last access of `key` in the access order (0: never)
RECURSIVE AccessRank(_, _)
AccessRank(order, key) ==
  IF order = <<>> THEN 0
  ELSE IF order[Len(order)] = key THEN Len(order)
  ELSE AccessRank(SubSeq(order, 1, Len(order) - 1), key)

\* C23: the cache never holds more than maxSize entries; a step that
\* stores an entry first evicts in least-recently-accessed order (every
\* evicted key was accessed before every key that stays) until fewer than
\* maxSize entries are left beside the stored one.
C23_CacheBoundedLru ==
  [][/\ Cardinality(DOMAIN authCache') <= MaxCacheSize
     /\ \A key \in StoredKeys :
          /\ Cardinality(DOMAIN authCache' \ {key}) < MaxCacheSize
          /\ \A gone \in EvictedKeys, kept \in DOMAIN authCache' \ {key} :
               AccessRank(cacheAccessOrder, gone) < AccessRank(cacheAccessOrder, kept)]_vars

\* a full cache beside a key that is being refreshed and is in neither the
\* cache nor the access order: while its refresh was in flight, a store
\* evicted it as the least recently accessed key
C23_Witness ==
  /\ Cardinality(DOMAIN authCache) = MaxCacheSize
  /\ \E key \in refreshInProgress :
       key \notin DOMAIN authCache /\ AccessRank(cacheAccessOrder, key) = 0

\* the cache keys of the model
CacheKeys == {BuildCacheKey(provider, profileId) : provider \in Providers,
                                                   profileId \in Profiles \cup {NoProfile}}

\* C24: a non-forced preloadAuth returns the cached credential exactly
\* while now < expiresAt, at once and without awaiting the resolver; at or
\* after expiresAt it drops the entry and awaits the resolver, and the
\* credential the resolver returns is stored with resolvedAt = now and
\* expiresAt = resolvedAt + TTL and returned.
C24_FreshOrResolved ==
  [][\A c \in AuthCallIds :
       /\ \A provider \in Providers, profileId \in Profiles \cup {NoProfile} :
            PreloadAuth(c, provider, profileId, FALSE) =>
              LET key == BuildCacheKey(provider, profileId)
                  fresh == key \in DOMAIN authCache /\ authClock < authCache[key].expiresAt
              IN IF fresh
                 THEN /\ authCall'[c].state = "returned"
                      /\ authCall'[c].value = authCache[key].auth
                 ELSE /\ authCall'[c].state = "resolving"
                      /\ key \notin DOMAIN authCache'
       /\ ResolverReturns(c) =>
            LET key == authCall[c].key
            IN /\ authCall'[c].state = "returned"
               /\ authCache'[key].auth = authCall'[c].value
               /\ authCache'[key].resolvedAt = authClock
               /\ authCache'[key].expiresAt = authClock + AUTH_CACHE_TTL_MS]_vars

\* a call that found the entry expired has resolved, stored and returned
C24_Witness ==
  \E c \in AuthCallIds :
    /\ authCall[c].state = "returned"
    /\ ~authCall[c].hit
    /\ authClock >= AUTH_CACHE_TTL_MS
    /\ authCall[c].key \in DOMAIN authCache
    /\ authCache[authCall[c].key].resolvedAt = authClock

\* the background refreshes in flight for `key`
RefreshesOf(key) == {i \in 1 .. Len(refreshes) : refreshes[i].key = key}

\* C25: for every cache key at most one background refresh is in flight
\* at any time.
C25_OneRefreshPerKey == \A key \in CacheKeys : Cardinality(RefreshesOf(key)) <= 1

\* C26: when a background refresh fails the cached entry of its key stays
\* as it is (same credential, same expiresAt) and the key's in-flight marker
\* is released (the guard of scheduleBackgroundRefresh lets the next hit in
\* the window start a refresh); the call whose hit started a refresh returns
\* the cached credential, not an error.
C26_FailedRefreshKeepsEntry ==
  [][/\ \A i \in 1 .. MaxRefreshes :
          RefreshThrows(i) =>
            /\ authCache' = authCache
            /\ refreshes[i].key \notin refreshInProgress'
     /\ \A c \in AuthCallIds, provider \in Providers, profileId \in Profiles \cup {NoProfile} :
          PreloadAuth(c, provider, profileId, FALSE) /\ Len(refreshes') > Len(refreshes) =>
            LET key == BuildCacheKey(provider, profileId)
            IN /\ authCall'[c].state = "returned"
               /\ authCall'[c].value = authCache[key].auth
               /\ authCache' = authCache]_vars

\* a hit on the first entry stored has started a refresh and returned the
\* cached credential, and the refresh is over with the entry as it was: it
\* has failed
C26_Witness ==
  \E c \in AuthCallIds :
    LET key == authCall[c].key
    IN /\ authCall[c].state = "returned"
       /\ authCall[c].started
       /\ key \in DOMAIN authCache
       /\ authCall[c].value = authCache[key].auth
       /\ authCache[key].resolvedAt = 0
       /\ authClock < authCache[key].expiresAt
       /\ refreshes = <<>>
       /\ key \notin refreshInProgress

\* C27: the first non-forced preloadAuth for a key after invalidateAuth of
\* that key does not return a credential whose resolution was started
\* before the invalidation: it awaits the resolver, or returns a credential
\* resolved since.
C27_InvalidateForcesResolution ==
  [][\A c \in AuthCallIds, provider \in Providers, profileId \in Profiles \cup {NoProfile} :
       PreloadAuth(c, provider, profileId, FALSE)
         /\ BuildCacheKey(provider, profileId) \in invalidated =>
           \/ authCall'[c].state = "resolving"
           \/ ~authCall'[c].value.old]_vars

\* what findAvailableAuth goes through: the profiles in order, then no profile
Candidates(F) == F.order \o <<NoProfile>>

\* the log entries of attempts that failed: all but the last, and the last
\* too when the call returned null
FailedAttempts(F) ==
  {i \in 1 .. Len(F.log) :
     /\ F.log[i].what = "resolved"
     /\ i < Len(F.log) \/ (F.state = "returned" /\ F.value = NoAuth)}

\* C28: findAvailableAuth goes through the profiles in the resolved order
\* and then the no-profile resolution, skips exactly the profiles in
\* cooldown without attempting them, goes on after a failed resolution and
\* returns the first credential it gets; a step of it stores at most the
\* credential it returns. With order [P1 in cooldown, P2 failing, P3
\* succeeding] and an empty cache it returns P3's auth and only P3's key
\* is cached.
C28_FindInOrder ==
  [][LET F == findCall'
     IN /\ Len(F.log) <= Len(Candidates(F))
        /\ \A i \in 1 .. Len(F.log) :
             /\ F.log[i].profileId = Candidates(F)[i]
             /\ (F.log[i].what = "skipped") <=> (i <= Len(F.order) /\ F.order[i] \in F.cooldown)
             /\ i < Len(F.log) => F.log[i].what \in {"skipped", "resolved"}
        /\ F.state = "returned" =>
             IF F.value = NoAuth
             THEN Len(F.log) = Len(Candidates(F))
             ELSE F.value.key = BuildCacheKey(F.provider, F.log[Len(F.log)].profileId)
        /\ findCall' # findCall =>
             /\ StoredKeys \subseteq
                  {F.value.key : x \in {y \in {F.state} : y = "returned" /\ F.value # NoAuth}}
             /\ \A i \in FailedAttempts(F) :
                  BuildCacheKey(F.provider, F.log[i].profileId) \notin DOMAIN authCache'
                    \ DOMAIN authCache
        /\ (/\ F.state = "returned"
            /\ F.calls = 1
            /\ F.order = <<"P1", "P2", "P3">>
            /\ F.cooldown = {"P1"}
            /\ FailedAttempts(F) = {2}
            /\ Len(F.log) = 3)
             => /\ F.value = Credential(BuildCacheKey(F.provider, "P3"), FALSE)
                /\ DOMAIN authCache' = {BuildCacheKey(F.provider, "P3")}]_vars

\* the scenario: P1 skipped in cooldown, P2 failed, P3 resolved and returned
C28_Witness ==
  /\ findCall.state = "returned"
  /\ findCall.calls = 1
  /\ findCall.order = <<"P1", "P2", "P3">>
  /\ findCall.cooldown = {"P1"}
  /\ findCall.log = <<[profileId |-> "P1", what |-> "skipped"],
                      [profileId |-> "P2", what |-> "resolved"],
                      [profileId |-> "P3", what |-> "resolved"]>>
  /\ findCall.value = Credential(<<"anthropic", "P3">>, FALSE)
  /\ DOMAIN authCache = {<<"anthropic", "P3">>}

\* every profile outside cooldown and the no-profile resolution have failed
Exhausted(F) == F.state = "returned" /\ Len(Candidates(F)) \in FailedAttempts(F)

\* C29: when every profile outside cooldown and the no-profile resolution
\* fail, the caller of findAvailableAuth receives the last resolution error.
C29_LastErrorToCaller ==
  Exhausted(findCall) => findCall.value = findCall.lastError

\* ---------------------------------------------------------- timer manager
\* C30: at every instant the number of registered timers equals
\* totalCreated - totalFired - totalCancelled.
C30_RegistrySizeAccounted ==
  Cardinality(DOMAIN activeTimers) = totalCreated - totalFired - totalCancelled

\* the three functions that cancel timers
ClearFunctions == {"clearManagedTimer", "clearAllTimers", "clearTimersByLabel"}

\* C31: a firing timeout leaves the registry before its user callback runs:
\* while the callback runs the timer is not listed, and clearManagedTimer on
\* its id returns false and counts nothing. A firing interval stays
\* registered as it was; an interval leaves the registry only through one of
\* the clear functions, which counts it as cancelled.
C31_TimeoutGoneIntervalStays ==
  [][/\ \A id \in TimerIds :
          /\ TimerFires(id) =>
               IF activeTimers[id].type = "timeout"
               THEN id \notin DOMAIN activeTimers'
               ELSE id \in DOMAIN activeTimers' /\ activeTimers'[id] = activeTimers[id]
          /\ (/\ ClearManagedTimer(id)
              /\ timerCallback # NoCallback
              /\ timerCallback.type = "timeout"
              /\ timerCallback.id = id)
               => /\ ~timerReturn'.ok
                  /\ totalCancelled' = totalCancelled
                  /\ activeTimers' = activeTimers
     /\ (timerCallback' # NoCallback /\ timerCallback'.type = "timeout")
          => timerCallback'.id \notin DOMAIN activeTimers'
     /\ \A id \in DOMAIN activeTimers \ DOMAIN activeTimers' :
          activeTimers[id].type = "interval" =>
            /\ timerReturn'.of \in ClearFunctions
            /\ totalCancelled' > totalCancelled]_vars

\* of two timers created and none cancelled, the interval has fired twice
\* and is registered; the timeout has fired, its callback is running, it is
\* not listed and clearManagedTimer on its id has returned false
C31_Witness ==
  /\ totalCreated = 2
  /\ totalFired = 3
  /\ totalCancelled = 0
  /\ timerCallback # NoCallback
  /\ timerCallback.type = "timeout"
  /\ timerReturn = [NoReturn EXCEPT !.of = "clearManagedTimer", !.id = timerCallback.id]
  /\ \E id \in TimerIds :
       DOMAIN activeTimers = {id} /\ activeTimers[id].type = "interval"

\* C32: clearAllTimers leaves no timer registered and none armed, so that
\* no cancelled callback runs afterwards, and returns the number of timers
\* it found registered, which it adds to totalCancelled; called with nothing
\* registered, as a second call in a row is, it returns 0 and changes
\* neither the registry nor the counters.
C32_ClearAllIdempotent ==
  [][/\ ClearAllTimers =>
          /\ activeTimers' = <<>>
          /\ timerHandles' = <<>>
          /\ timerReturn'.count = Cardinality(DOMAIN activeTimers)
          /\ totalCancelled' = totalCancelled + Cardinality(DOMAIN activeTimers)
          /\ <<totalCreated, totalFired, nextId>>' = <<totalCreated, totalFired, nextId>>
          /\ timerReturn.of = "clearAllTimers" =>
               /\ timerReturn'.count = 0
               /\ <<activeTimers, totalCancelled>>' = <<activeTimers, totalCancelled>>
     /\ \A id \in TimerIds :
          TimerFires(id) => id \in DOMAIN activeTimers]_vars

\* clearAllTimers has cancelled a timeout and an interval that had fired:
\* nothing is registered, nothing is armed
C32_Witness ==
  /\ timerReturn.of = "clearAllTimers"
  /\ timerReturn.count = 2
  /\ totalCreated = 2
  /\ totalFired = 1
  /\ totalCancelled = 2
  /\ activeTimers = <<>>
  /\ timerHandles = <<>>


FulfilledCalls ==
  {c \in CallIds : callPromise[c].state = "pending" /\ callPromise'[c].state = "resolved"}

\* C34: when a step fulfils futures of a window, the window is out of the
\* map and no timer is armed for its session at the end of the step, so that
\* a coalesceMessage made from a resolve callback opens a fresh window with
\* its own timer; flushCoalesceWindow without a window changes nothing
C34_RemovedBeforeResolve ==
  [][/\ \A c \in FulfilledCalls :
          /\ callPromise[c].sessionKey \notin DOMAIN activeWindows'
          /\ \A timer \in DOMAIN windowTimers' : windowTimers'[timer] # callPromise[c].sessionKey
     /\ \A k \in WindowKeys, text \in Texts, call \in CallIds :
          /\ (/\ CoalesceMessage(k, text, call)
              /\ k \notin DOMAIN activeWindows
              /\ ~ShouldSkipCoalescing(globalConfig, k))
               => /\ activeWindows'[k] = [messages |-> <<[text |-> text, call |-> call]>>,
                                          resolve |-> <<call>>, timer |-> call]
                  /\ windowTimers' = (call :> k) @@ windowTimers
                  /\ callPromise'[call].state = "pending"
          /\ (FlushCoalesceWindow(k) /\ k \notin DOMAIN activeWindows)
               => UNCHANGED <<activeWindows, windowTimers, callPromise>>]_vars

\* a call was fulfilled with its window's list, and the session has a window
\* again that holds one later message only and has its own armed timer
C34_Witness ==
  \E c \in CallIds :
    /\ callPromise[c].state = "resolved"
    /\ Len(callPromise[c].value) = 2
    /\ callPromise[c].sessionKey \in DOMAIN activeWindows
    /\ LET w == activeWindows[callPromise[c].sessionKey]
       IN /\ Len(w.messages) = 1
          /\ w.messages[1].call > c
          /\ w.timer = w.messages[1].call
          /\ DOMAIN windowTimers = {w.timer}

\* C39: every armed timer is the timer of the window that is in the map
\* under its session key, a firing timer closes that window and no other,
\* and a window leaves the map only when its own timer fires, when a push
\* reaches maxMessages, on flushCoalesceWindow or on clearAllWindows
C39_TimerClosesOwnWindow ==
  [][/\ \A timer \in DOMAIN windowTimers' :
          /\ windowTimers'[timer] \in DOMAIN activeWindows'
          /\ activeWindows'[windowTimers'[timer]].timer = timer
     /\ \A timer \in CallIds :
          WindowTimer(timer) =>
            /\ activeWindows[windowTimers[timer]].timer = timer
            /\ DOMAIN activeWindows' = DOMAIN activeWindows \ {windowTimers[timer]}
     /\ \A k \in DOMAIN activeWindows :
          (k \notin DOMAIN activeWindows' \/ activeWindows'[k].timer # activeWindows[k].timer) =>
            \/ WindowTimer(activeWindows[k].timer)
            \/ \E text \in Texts, call \in CallIds :
                 /\ CoalesceMessage(k, text, call)
                 /\ Len(activeWindows[k].messages) + 1 >= globalConfig.maxMessages
            \/ FlushCoalesceWindow(k)
            \/ ClearAllWindows]_vars

\* a window was closed by the push that reached maxMessages (the pushing
\* call is pending outside every window) and the session has a new window,
\* whose timer is the only armed one
C39_Witness ==
  \E c \in CallIds :
    /\ callPromise[c].state = "pending"
    /\ callPromise[c].sessionKey \in DOMAIN activeWindows
    /\ LET w == activeWindows[callPromise[c].sessionKey]
       IN /\ \A i \in 1 .. Len(w.resolve) : w.resolve[i] # c
          /\ w.timer > c
          /\ DOMAIN windowTimers = {w.timer}

\* the lists of the open windows and the lists futures were fulfilled with
MessageLists ==
  {activeWindows[k].messages : k \in DOMAIN activeWindows}
    \cup {callPromise[c].value : c \in {d \in CallIds : callPromise[d].state = "resolved"}}

\* C40: the message of every coalesceMessage call made is in exactly one
\* list, that of an open window or that of a closed one as its callers
\* received it, once, and every list is in the order of the calls
C40_NoMessageLost ==
  /\ \A c \in CallIds :
       callPromise[c].state # "none" =>
         /\ Cardinality({list \in MessageLists : c \in CallersOf(list)}) = 1
         /\ \A list \in MessageLists :
              Cardinality({i \in 1 .. Len(list) : list[i].call = c}) <= 1
  /\ \A list \in MessageLists : ArrivalOrder(list)

\* the windows of two sessions are closed and fulfilled, one with three
\* messages, among them the one whose push closed it
C40_Witness ==
  /\ activeWindows = <<>>
  /\ \E c1, c2, c3 \in CallIds :
       /\ callPromise[c1].state = "resolved"
       /\ callPromise[c2].state = "resolved"
       /\ callPromise[c1].sessionKey # callPromise[c2].sessionKey
       /\ callPromise[c3].state = "pending"
       /\ Len(callPromise[c1].value) = 3
       /\ c3 \in CallersOf(callPromise[c1].value)

\* the runs this step starts an announce flow for
StartedAnnounces ==
  {effects'[i].record.runId : i \in {j \in 1 .. Len(effects') : effects'[j].kind = "announce"}}

\* C35: when the announce flow of a run returns true, policy delete removes
\* the record (from the file too) and policy keep sets cleanupCompletedAt
\* and nothing else; no flow is ever started for a run that was delivered
\* or whose record has cleanupCompletedAt; when the flow returns false the
\* record changes in cleanupHandled only, which is false again, so that the
\* next end event or init of another process begins the cleanup anew
C35_FinalizeByPolicy ==
  [][/\ \A i \in 1 .. MaxRuns, did \in BOOLEAN, now \in Times :
          (/\ AnnounceDone(i, did, now)
           /\ announceFlows[i].runId \in DOMAIN subagentRuns) =>
            LET r == announceFlows[i].runId
                entry == subagentRuns[r]
            IN IF ~did
               THEN /\ subagentRuns' = [subagentRuns EXCEPT ![r].cleanupHandled = FALSE]
                    /\ persisted' = subagentRuns'
                    /\ entry.cleanupCompletedAt = None
                    /\ Ended(entry)
               ELSE IF announceFlows[i].cleanup = "delete"
               THEN /\ subagentRuns' = Remove(subagentRuns, r)
                    /\ persisted' = subagentRuns'
               ELSE /\ subagentRuns' = [subagentRuns EXCEPT ![r].cleanupCompletedAt = now]
                    /\ now # None
                    /\ persisted' = subagentRuns'
     /\ \A r \in StartedAnnounces :
          LET entry == IF r \in DOMAIN subagentRuns THEN subagentRuns[r] ELSE persisted[r]
          IN /\ announced[r] = 0
             /\ entry.cleanupCompletedAt = None
             /\ ~entry.cleanupHandled
             /\ FlowsOf(r) = {}]_vars

\* one run was delivered and its record kept with cleanupCompletedAt; the
\* flow of another run returned false: its record has ended and is not
\* marked, and no flow of it is in flight
C35_Witness ==
  \E r1, r2 \in DOMAIN subagentRuns :
    /\ announced[r1] = 1
    /\ subagentRuns[r1].cleanupCompletedAt # None
    /\ subagentRuns[r1].cleanupHandled
    /\ announced[r2] = 0
    /\ Ended(subagentRuns[r2])
    /\ ~subagentRuns[r2].cleanupHandled
    /\ FlowsOf(r2) = {}

\* C36: the first initSubagentRegistry of a process that finds records in
\* the file keeps every in-memory record, adds the restored ones, and leaves
\* every record that has ended and has no cleanupCompletedAt with an
\* announce flow in flight, also the records the file holds with
\* cleanupHandled = true; for records that have not ended it starts no flow
\* and the listener is subscribed; a later init of the process changes
\* nothing
C36_InitResumesEndedRuns ==
  [][InitSubagentRegistry =>
       IF restoreAttempted
       THEN UNCHANGED <<subagentRuns, persisted, announceFlows, listenerStarted, resumedRuns>>
       ELSE /\ \A r \in DOMAIN subagentRuns :
                 /\ r \in DOMAIN subagentRuns'
                 /\ subagentRuns'[r] = [subagentRuns[r] EXCEPT
                                          !.cleanupHandled = subagentRuns'[r].cleanupHandled]
            /\ persisted # <<>> =>
                 /\ DOMAIN subagentRuns' = DOMAIN subagentRuns \cup DOMAIN persisted
                 /\ listenerStarted'
                 /\ \A r \in DOMAIN subagentRuns' :
                      IF Ended(subagentRuns'[r])
                      THEN subagentRuns'[r].cleanupCompletedAt = None =>
                             /\ FlowsOf(r)' # {}
                             /\ subagentRuns'[r].cleanupHandled
                      ELSE r \notin StartedAnnounces]_vars

\* the records that have archiveAtMs
ArchiveRuns(runs) == {r \in DOMAIN runs : runs[r].archiveAtMs # None}

\* C37: never more than one sweep timer is armed; while no sweep is
\* suspended on a session deletion and some record has archiveAtMs, one is
\* armed; a sweep that ends with such records left arms one; and every
\* record with archiveAtMs is removed in the end
C37_SweepAlwaysScheduled ==
  /\ [](sweepTimer <= 1)
  /\ []((sweeps = <<>> /\ ArchiveRuns(subagentRuns) # {}) => sweepTimer = 1)
  /\ [][\A i \in 1 .. MaxRuns :
          (SweepResumes(i) /\ Len(sweeps') < Len(sweeps)
             /\ ArchiveRuns(subagentRuns') # {}) => sweepTimer' = 1]_vars
  /\ \A r \in RunIds :
       (r \in ArchiveRuns(subagentRuns)) ~> (r \notin DOMAIN subagentRuns)

\* a sweep is suspended on the deletion of the session of one run while the
\* other run, registered meanwhile, has its own timer armed
C37_Witness ==
  /\ Len(sweeps) = 1
  /\ sweeps[1].child \notin DOMAIN subagentRuns
  /\ ArchiveRuns(subagentRuns) # {}
  /\ sweepTimer = 1

\* the task runners of a named lane and of the session lanes
LaneRunners(lane) == {r \in running : r.kind = "lane" /\ r.key = lane}
SessionRunners == {r \in running : r.kind = "session"}

\* C38: for every named lane, active is the size of activeTaskIds and the
\* number of its task runners; activeSessionCount is the number of session
\* lanes with active = true and the number of session task runners, and
\* each active session lane has its runner; no counter is negative
C38_CountersMatchRunners ==
  /\ \A lane \in DOMAIN lanes :
       /\ lanes[lane].active >= 0
       /\ lanes[lane].active = Cardinality(lanes[lane].activeTaskIds)
       /\ lanes[lane].active = Cardinality(LaneRunners(lane))
  /\ activeSessionCount >= 0
  /\ activeSessionCount = Cardinality({k \in DOMAIN sessionLanes : sessionLanes[k].active})
  /\ activeSessionCount = Cardinality(SessionRunners)
  /\ \A k \in DOMAIN sessionLanes :
       sessionLanes[k].active <=> \E r \in SessionRunners : r.key = k
====
